---- MODULE Spec2Model ----
(***************************************************************************)
(* Verification model of the iot-edge-demo coordination layer:             *)
(*   - the asset lifecycle state machine (shared/iot_edge_base/asset.py)   *)
(*     with the three concrete drivers (solar, boiler, battery),           *)
(*   - the RPC layer of LocalMqttEdgeClient (shared/iot_edge_base/         *)
(*     client.py): invoke_method, _dispatch and the _pending map,          *)
(*   - CommandDispatcher.send (controller-module/src/dispatcher.py).       *)
(* Each component has its own specification (SpecAsset, SpecTransport,     *)
(* SpecDispatcher); the variables of the other components keep their       *)
(* constructed values.                                                     *)
(***************************************************************************)
EXTENDS Integers, Sequences, FiniteSets, Bags, TLC

VARIABLES
    \* ---- asset driver (BaseAsset and its subclasses) ----
    kind,            \* the concrete driver class of the instance
    _state,          \* BaseAsset._state
    _fault_code,     \* BaseAsset._fault_code
    _battery_state,  \* BatteryStorage._battery_state (unused by the others)
    _lock,           \* BaseAsset._lock: holder (a set of at most one task)
                     \* and queue of waiters of the asyncio.Lock
    pc,              \* position of each caller task inside start()/stop()
    running,         \* the task (if any) that is between two writes of a
                     \* call without having suspended
    last_ops,        \* the last two operations that took a step (history)
    fault_used,      \* whether fault() or reset() was ever called (history)
    hooked,          \* the hook invocations made by the last step (history)
    \* ---- transport (LocalMqttEdgeClient) ----
    now,             \* loop.time(), in clock ticks
    _pending,        \* LocalMqttEdgeClient._pending: request_id -> future
    call,            \* per invoke_method call: its position and data
    fut,             \* per future: its state and result
    raised,          \* whether _dispatch has raised (listener crash)
    late,            \* a response came for the id of a call that had
                     \* timed out (history)
    net,             \* messages published to the broker and not yet
                     \* dispatched by the module they are for
    _listen_task,    \* the caller's LocalMqttEdgeClient._listen_task
    _method_handler, \* the callee's LocalMqttEdgeClient._method_handler
    handled,         \* the requests the callee's handler was invoked with
                     \* (a bag: how often with each)
    sent,            \* the responses the callee has published (a bag)
    \* ---- dispatcher (CommandDispatcher.send) ----
    _max_retries,    \* CommandDispatcher._max_retries
    request,         \* the arguments send() was called with
    transport,       \* what the client does on its i-th invocation
    d_pc,            \* position of send()
    attempt,         \* loop variable of send()
    invoked,         \* the invoke_method calls made by send(), in order
    slept,           \* number of retry delays taken by send()
    last_exc,        \* send()'s last_exc (empty while it is None)
    outcome,         \* what send() returned or raised
    \* ---- controller (balancing_loop) and the other periodic loops ----
    surplus_threshold_kw, \* Aggregator.surplus_threshold_kw
    telemetry,       \* the AggregatedTelemetry of the balancing cycle
    b_pc,            \* position of balancing_loop
    alert_i,         \* position of `for alert in telemetry.alerts` (0: the
                     \* loop has not been entered in this cycle)
    dispatched,      \* the commands given to the dispatcher in this cycle
    failed,          \* the alerts of this cycle whose command failed
    l_pc,            \* position of each of the other periodic loops (and,
                     \* in a sleep, the step of the body that raised)
    \* ---- shutdown of the modules (main) ----
    stop_event,      \* the processes whose stop_event is set
    must_cancel,     \* the loops whose task.cancel() was called and whose
                     \* CancelledError has not been raised yet
    cancelled_at,    \* where each loop was when CancelledError was raised
                     \* in it (history)
    \* ---- registry (AssetRegistry) ----
    _assets,         \* AssetRegistry._assets: asset_id -> AssetSnapshot
    wall,            \* the wall clock datetime.now() reads
    accepted,        \* the asset_ids update() has stored a snapshot for
                     \* (history)
    replaced,        \* the asset_ids whose snapshot update() has overwritten
                     \* (history)
    r_outcome,       \* how the last update() call ended: it stored a
                     \* snapshot, dropped the message, or raised
    reg_lock,        \* AssetRegistry._lock: the task holding it, or "free"
    r_call,          \* per task: the registry call it is in and how far
    r_result,        \* per task: what its last read returned
    r_during,        \* per task: the contents the map had since its call
                     \* began (history)
    \* ---- aggregator (Aggregator.compute) ----
    snapshots,       \* the list registry.get_all() returns to compute()
    agg_threshold,   \* Aggregator.surplus_threshold_kw, in thousandths of kW
    computed,        \* the AggregatedTelemetry compute() returned
    \* ---- method handlers of the asset modules (handle_method) ----
    h_module,        \* the module whose handler is registered
    h_asset,         \* its driver: state, state of charge, setpoint
    h_request,       \* the DirectMethodRequest the handler got last
    h_response,      \* the DirectMethodResponse it returned
    \* ---- inbound dispatch of one client (_listen_loop, _dispatch) ----
    in_listen,       \* the listener task: "running" or "ended"
    in_pending,      \* self._pending: the ids with a future, and its state
    in_handlers,     \* the message classes a handler is registered for
    in_count,        \* messages the broker has delivered so far
    in_last,         \* what became of the message delivered last
    \* ---- command path: send(), the clients of several modules, broker ----
    b_now,           \* loop.time(), in microseconds (the quantum of the ids)
    b_calls,         \* the invoke_method calls made so far, in order
    b_pending,       \* per calling module: self._pending, id -> call
    b_net,           \* the messages the broker still has to deliver
    b_send,          \* the controller's send(): position, attempt, result
    \* ---- asset drivers: SolarInverter, Boiler, BatteryStorage ----
    drv,             \* the driver object's fields
    drv_last         \* the operation called last, its argument, its end

assetVars == <<kind, _state, _fault_code, _battery_state, _lock, pc, running,
               last_ops, fault_used, hooked>>
calleeVars == <<_method_handler, handled, sent>>
transportVars == <<now, _pending, call, fut, raised, late, net, _listen_task,
                   calleeVars>>
dispatcherVars == <<_max_retries, request, transport, d_pc, attempt, invoked, slept,
                    last_exc, outcome>>
controllerVars == <<surplus_threshold_kw, telemetry, b_pc, alert_i, dispatched,
                    failed, l_pc>>
shutdownVars == <<stop_event, must_cancel, cancelled_at>>
driverVars == <<drv, drv_last>>
busVars == <<b_now, b_calls, b_pending, b_net, b_send>>
inboundVars == <<in_listen, in_pending, in_handlers, in_count, in_last>>
handlerVars == <<h_module, h_asset, h_request, h_response>>
aggregatorVars == <<snapshots, agg_threshold, computed>>
registryVars == <<_assets, wall, accepted, replaced, r_outcome, reg_lock,
                  r_call, r_result, r_during>>
vars == <<assetVars, transportVars, dispatcherVars, controllerVars,
         shutdownVars,
         registryVars,
         aggregatorVars,
         handlerVars,
         inboundVars,
         busVars,
         driverVars>>

None == "None"

(***************************************************************************)
(* Bounds of the model.                                                    *)
(***************************************************************************)
NumTasks == 2        \* concurrent callers of one asset instance
NumCalls == 2        \* invoke_method calls issued on one client
MaxClock == 3        \* last clock tick
MaxRetriesBound == 2 \* largest max_retries a dispatcher is built with

(***************************************************************************)
(* Asset state machine                                                     *)
(***************************************************************************)
AssetState == {"IDLE", "STARTING", "RUNNING", "STOPPING", "FAULT"}
Drivers == {"SolarInverter", "Boiler", "BatteryStorage"}
FaultCodes == {"OVER_TEMPERATURE", "OVER_PRESSURE"}
Tasks == 1..NumTasks

\* The `state` property: BaseAsset returns _state, BatteryStorage overrides
\* it to return _battery_state.
state == IF kind = "BatteryStorage" THEN _battery_state ELSE _state

fault_code == _fault_code

InitAsset ==
    /\ kind \in Drivers
    /\ _state = "IDLE"
    /\ _fault_code = None
    /\ _battery_state = "IDLE"
    /\ _lock = [holder |-> {}, waiters |-> <<>>]
    /\ pc = [t \in Tasks |-> "idle"]
    /\ running = {}
    /\ last_ops = <<"init", "init">>
    /\ fault_used = FALSE
    /\ hooked = <<>>

Did(op) == last_ops' = <<last_ops[2], op>>

\* `await self._on_start()`, `await self._on_stop()`, `await self._on_fault(code)`
HookCall(hook, arg) == [hook |-> hook, arg |-> arg]

\* asyncio.Lock.acquire() returns at once only when the lock is free and
\* nobody is queued for it.
LockFree == _lock.holder = {} /\ _lock.waiters = <<>>

\* asyncio.Lock.release(): the lock is free again; the first waiter is the
\* only one that may take it next.
Released(waiters) == [holder |-> {}, waiters |-> waiters]

\* BatteryStorage's writes in its hooks; the other drivers' hooks touch
\* only power fields.
OnStartHook == IF kind = "BatteryStorage" THEN "RUNNING" ELSE _battery_state
OnStopHook == IF kind = "BatteryStorage" THEN "IDLE" ELSE _battery_state
OnFaultHookSkip == _battery_state
OnFaultHook == IF kind = "BatteryStorage" THEN "FAULT" ELSE _battery_state

\* start() from the point where the lock has been acquired up to the
\* on-start hook's suspension (asyncio.sleep in all three drivers).
StartLocked(t, waiters) ==
    IF _state # "IDLE"
    THEN /\ _lock' = Released(waiters)
         /\ pc' = [pc EXCEPT ![t] = "idle"]
         /\ hooked' = <<>>
         /\ UNCHANGED _state
    ELSE /\ _state' = "STARTING"
         /\ _lock' = [holder |-> {t}, waiters |-> waiters]
         /\ pc' = [pc EXCEPT ![t] = "on_start"]
         /\ hooked' = <<HookCall("on_start", None)>>

Start(t) ==
    /\ running = {}
    /\ pc[t] = "idle"
    /\ IF LockFree
       THEN StartLocked(t, <<>>)
       ELSE /\ _lock' = [_lock EXCEPT !.waiters = Append(@, t)]
            /\ pc' = [pc EXCEPT ![t] = "start_wait"]
            /\ hooked' = <<>>
            /\ UNCHANGED _state
    /\ Did("start")
    /\ UNCHANGED <<kind, _fault_code, _battery_state, running, fault_used>>
    /\ UNCHANGED <<transportVars, dispatcherVars, controllerVars,
                   shutdownVars, registryVars, aggregatorVars, handlerVars,
                   inboundVars, busVars, driverVars>>

StartResume(t) ==
    /\ running = {}
    /\ pc[t] = "start_wait"
    /\ _lock.holder = {}
    /\ _lock.waiters # <<>> /\ Head(_lock.waiters) = t
    /\ StartLocked(t, Tail(_lock.waiters))
    /\ Did("start_resume")
    /\ UNCHANGED <<kind, _fault_code, _battery_state, running, fault_used>>
    /\ UNCHANGED <<transportVars, dispatcherVars, controllerVars,
                   shutdownVars, registryVars, aggregatorVars, handlerVars,
                   inboundVars, busVars, driverVars>>

\* The on-start hook returns; start() writes RUNNING and leaves the lock.
StartDone(t) ==
    /\ running = {}
    /\ pc[t] = "on_start"
    /\ _battery_state' = OnStartHook
    /\ _state' = "RUNNING"
    /\ _lock' = Released(_lock.waiters)
    /\ pc' = [pc EXCEPT ![t] = "idle"]
    /\ hooked' = <<>>
    /\ Did("start_done")
    /\ UNCHANGED <<kind, _fault_code, running, fault_used>>
    /\ UNCHANGED <<transportVars, dispatcherVars, controllerVars,
                   shutdownVars, registryVars, aggregatorVars, handlerVars,
                   inboundVars, busVars, driverVars>>

\* BaseAsset.stop() from the point where the lock has been acquired up to
\* the call of the on-stop hook.  No driver's on-stop hook suspends, so the
\* caller keeps running until stop() returns.  StopDone is the call of the
\* hook, its body and the IDLE write.
StopLocked(t, waiters) ==
    IF _state \notin {"RUNNING", "STARTING"}
    THEN /\ _lock' = Released(waiters)
         /\ pc' = [pc EXCEPT ![t] = "idle"]
         /\ hooked' = <<>>
         /\ UNCHANGED <<_state, running>>
    ELSE /\ _state' = "STOPPING"
         /\ _lock' = [holder |-> {t}, waiters |-> waiters]
         /\ pc' = [pc EXCEPT ![t] = "on_stop"]
         /\ running' = {t}
         /\ hooked' = <<>>

\* BatteryStorage.stop() overrides BaseAsset.stop(): no lock, no _state.
BatteryStop ==
    /\ _battery_state' = "IDLE"
    /\ hooked' = <<>>
    /\ UNCHANGED <<_state, _lock, pc, running>>

Stop(t) ==
    /\ running = {}
    /\ pc[t] = "idle"
    /\ IF kind = "BatteryStorage"
       THEN BatteryStop
       ELSE /\ IF LockFree
               THEN StopLocked(t, <<>>)
               ELSE /\ _lock' = [_lock EXCEPT !.waiters = Append(@, t)]
                    /\ pc' = [pc EXCEPT ![t] = "stop_wait"]
                    /\ hooked' = <<>>
                    /\ UNCHANGED <<_state, running>>
            /\ UNCHANGED _battery_state
    /\ Did("stop")
    /\ UNCHANGED <<kind, _fault_code, fault_used>>
    /\ UNCHANGED <<transportVars, dispatcherVars, controllerVars,
                   shutdownVars, registryVars, aggregatorVars, handlerVars,
                   inboundVars, busVars, driverVars>>

StopResume(t) ==
    /\ running = {}
    /\ pc[t] = "stop_wait"
    /\ _lock.holder = {}
    /\ _lock.waiters # <<>> /\ Head(_lock.waiters) = t
    /\ StopLocked(t, Tail(_lock.waiters))
    /\ Did("stop_resume")
    /\ UNCHANGED <<kind, _fault_code, _battery_state, fault_used>>
    /\ UNCHANGED <<transportVars, dispatcherVars, controllerVars,
                   shutdownVars, registryVars, aggregatorVars, handlerVars,
                   inboundVars, busVars, driverVars>>

StopDone(t) ==
    /\ running = {t}
    /\ pc[t] = "on_stop"
    /\ _battery_state' = OnStopHook
    /\ _state' = "IDLE"
    /\ _lock' = Released(_lock.waiters)
    /\ pc' = [pc EXCEPT ![t] = "idle"]
    /\ running' = {}
    /\ hooked' = <<HookCall("on_stop", None)>>
    /\ Did("stop_done")
    /\ UNCHANGED <<kind, _fault_code, fault_used>>
    /\ UNCHANGED <<transportVars, dispatcherVars, controllerVars,
                   shutdownVars, registryVars, aggregatorVars, handlerVars,
                   inboundVars, busVars, driverVars>>

\* fault() takes no lock; no driver's on-fault hook suspends, so the two
\* writes and the hook are one step.
Fault(t, code) ==
    /\ running = {}
    /\ pc[t] = "idle"
    /\ _state' = "FAULT"
    /\ _fault_code' = code
    /\ _battery_state' = OnFaultHook
    /\ fault_used' = TRUE
    /\ hooked' = <<HookCall("on_fault", code)>>
    /\ Did("fault")
    /\ UNCHANGED <<kind, _lock, pc, running>>
    /\ UNCHANGED <<transportVars, dispatcherVars, controllerVars,
                   shutdownVars, registryVars, aggregatorVars, handlerVars,
                   inboundVars, busVars, driverVars>>

Reset(t) ==
    /\ running = {}
    /\ pc[t] = "idle"
    /\ IF _state # "FAULT"
       THEN UNCHANGED <<_state, _fault_code>>
       ELSE /\ _fault_code' = None
            /\ _state' = "IDLE"
    /\ fault_used' = TRUE
    /\ hooked' = <<>>
    /\ Did("reset")
    /\ UNCHANGED <<kind, _battery_state, _lock, pc, running>>
    /\ UNCHANGED <<transportVars, dispatcherVars, controllerVars,
                   shutdownVars, registryVars, aggregatorVars, handlerVars,
                   inboundVars, busVars, driverVars>>

InitAssetIdle ==
    /\ kind = "SolarInverter"
    /\ _state = "IDLE"
    /\ _fault_code = None
    /\ _battery_state = "IDLE"
    /\ _lock = [holder |-> {}, waiters |-> <<>>]
    /\ pc = [t \in Tasks |-> "idle"]
    /\ running = {}
    /\ last_ops = <<"init", "init">>
    /\ fault_used = FALSE
    /\ hooked = <<>>

(***************************************************************************)
(* Transport: the RPC layer of LocalMqttEdgeClient                         *)
(***************************************************************************)
Calls == 1..NumCalls
\* The calls are calls of one method: ids of different methods never meet.
Methods == {"start_charging"}

\* loop.time() is read in ticks of half a microsecond; request ids carry it
\* formatted with six decimals, i.e. rounded to the microsecond.
TicksPerMicro == 2
Fmt6(t) == (2 * t + TicksPerMicro) \div (2 * TicksPerMicro)

\* request_id = f"{method_name}-{loop.time():.6f}"
RequestIdUntimed(method_name, t) == <<method_name, Fmt6(0)>>
RequestId(method_name, t) == <<method_name, Fmt6(t)>>

\* timeout_s is a positive whole number of seconds (10 by default), far
\* above the microsecond of the ids; the model keeps it one id quantum long.
TimeoutTicks == TicksPerMicro

\* The ids a response topic edge/+/methods/response/{id} carries here: the
\* id of any call issued so far, or an id no call of this client ever had
\* (a response to another module's call, or to nothing at all).
ForeignId == <<"reset", 0>>
TopicIds == {call[k].id : k \in {j \in Calls : call[j].st # "new"}} \cup {ForeignId}

\* Response messages: {"status": .., "payload": ..}, and one without the
\* "payload" key.
EmptyDict == "{}"
Messages == {[status |-> "200", payload |-> "ok"], [status |-> "200"]}

\* dict.get(key, default)
Get(d, key, default) == IF key \in DOMAIN d THEN d[key] ELSE default

\* dict[key] = value, and dict.pop(key, None) seen as the remaining dict
Put(d, key, value) ==
    [x \in DOMAIN d \cup {key} |-> IF x = key THEN value ELSE d[x]]
Pop(d, key) == [x \in DOMAIN d \ {key} |-> d[x]]

\* The module that calls (the controller) and the module it calls.
CalleeId == "battery-module"

\* Topics: edge/{module_id}/methods/{method_name} and
\* edge/{module_id}/methods/response/{request_id}
MethodTopic(module_id, method_name) == <<"edge", module_id, "methods", method_name>>
ResponseTopic(module_id, request_id) ==
    <<"edge", module_id, "methods", "response", request_id>>

\* `"/methods/response/" in topic`
IsResponseTopic(topic) == Len(topic) = 5
\* `f"edge/{self._module_id}/methods/" in topic`, for a topic of the other shape
IsMethodTopic(topic, module_id) == Len(topic) = 4 /\ topic[2] = module_id

\* The payload of the k-th call; outgoing = {**payload, "_request_id": request_id}
CallPayload(k) == [power_kw |-> k]
Outgoing(payload, request_id) ==
    [x \in DOMAIN payload \cup {"_request_id"} |->
        IF x = "_request_id" THEN request_id ELSE payload[x]]

NoCall == [st |-> "new", id |-> <<>>, deadline |-> 0, result |-> None]
NoFuture == [st |-> "none", result |-> None, sets |-> 0]

InitTransportVars ==
    /\ now = 0
    /\ _pending = <<>>
    /\ call = [k \in Calls |-> NoCall]
    /\ fut = [k \in Calls |-> NoFuture]
    /\ raised = FALSE
    /\ late = FALSE
    /\ net = {}
    /\ _listen_task = "running"
    /\ _method_handler = FALSE
    /\ handled = EmptyBag
    /\ sent = EmptyBag

\* invoke_method up to `await self._client.publish(...)`: the id is made,
\* the future created and stored under the id.
Invoke(k, method_name) ==
    LET request_id == RequestId(method_name, now) IN
    /\ _listen_task = "running"
    /\ call[k].st = "new"
    /\ \A j \in Calls : j < k => call[j].st # "new"
    /\ net' = net \cup {[topic |-> MethodTopic(CalleeId, method_name),
                         body |-> Outgoing(CallPayload(k), request_id)]}
    /\ fut' = [fut EXCEPT ![k] = [st |-> "pending", result |-> None, sets |-> 0]]
    /\ _pending' = Put(_pending, request_id, k)
    /\ call' = [call EXCEPT ![k] = [st |-> "publishing", id |-> request_id,
                                    deadline |-> 0, result |-> None]]
    /\ UNCHANGED <<now, raised, late, _listen_task>>
    /\ UNCHANGED <<assetVars, dispatcherVars, controllerVars, shutdownVars,
                   registryVars, aggregatorVars, handlerVars, inboundVars,
                   busVars, driverVars, calleeVars>>

\* The publish of the invocation returns and wait_for starts; a future that
\* is already done is returned without waiting.
PublishDone(k) ==
    /\ call[k].st = "publishing"
    /\ IF fut[k].st = "result"
       THEN call' = [call EXCEPT ![k].st = "returned", ![k].result = fut[k].result]
       ELSE call' = [call EXCEPT ![k].st = "waiting",
                                 ![k].deadline = now + TimeoutTicks]
    /\ UNCHANGED <<now, _pending, fut, raised, late, net, _listen_task>>
    /\ UNCHANGED <<assetVars, dispatcherVars, controllerVars, shutdownVars,
                   registryVars, aggregatorVars, handlerVars, inboundVars,
                   busVars, driverVars, calleeVars>>

\* The publish of the invocation raises: the error leaves invoke_method
\* before its try block.
PublishFail(k) ==
    /\ call[k].st = "publishing"
    /\ call' = [call EXCEPT ![k].st = "publish_failed"]
    /\ UNCHANGED <<now, _pending, fut, raised, late, net, _listen_task>>
    /\ UNCHANGED <<assetVars, dispatcherVars, controllerVars, shutdownVars,
                   registryVars, aggregatorVars, handlerVars, inboundVars,
                   busVars, driverVars, calleeVars>>

\* `if future and not future.done()` of _dispatch, for the popped entry.
ShouldResolve(pending, request_id) ==
    /\ request_id \in DOMAIN pending
    /\ fut[pending[request_id]].st = "pending"

\* `self._pending.pop(request_id, None)` of _dispatch
DispatchPop(pending, request_id) == Pop(pending, request_id)

\* _dispatch of a message on a method-response topic.  set_result on a
\* future that is done raises InvalidStateError, which ends _listen_loop.
DispatchResponse(request_id, payload) ==
    /\ ~raised
    /\ _listen_task = "running"
    /\ _pending' = DispatchPop(_pending, request_id)
    /\ IF ShouldResolve(_pending, request_id)
       THEN LET f == _pending[request_id] IN
            IF fut[f].st = "pending"
            THEN /\ fut' = [fut EXCEPT ![f] =
                              [st |-> "result",
                               result |-> Get(payload, "payload", EmptyDict),
                               sets |-> @.sets + 1]]
                 /\ UNCHANGED raised
            ELSE /\ raised' = TRUE
                 /\ UNCHANGED fut
       ELSE UNCHANGED <<fut, raised>>

\* A response with any id and body reaches the caller's listener.
Deliver(request_id, payload) ==
    /\ DispatchResponse(request_id, payload)
    /\ late' = (late \/ \E k \in Calls : call[k].st = "timeout" /\ call[k].id = request_id)
    /\ UNCHANGED <<now, call, net, _listen_task>>
    /\ UNCHANGED <<assetVars, dispatcherVars, controllerVars, shutdownVars,
                   registryVars, aggregatorVars, handlerVars, inboundVars,
                   busVars, driverVars, calleeVars>>

\* wait_for returns the future's result to the caller.
Wake(k) ==
    /\ call[k].st = "waiting"
    /\ fut[k].st = "result"
    /\ call' = [call EXCEPT ![k].st = "returned", ![k].result = fut[k].result,
                            ![k].deadline = 0]
    /\ UNCHANGED <<now, _pending, fut, raised, late, net, _listen_task>>
    /\ UNCHANGED <<assetVars, dispatcherVars, controllerVars, shutdownVars,
                   registryVars, aggregatorVars, handlerVars, inboundVars,
                   busVars, driverVars, calleeVars>>

\* The deadline of wait_for passes with the future still pending: wait_for
\* cancels the future and will raise TimeoutError when the caller runs.
TimerFires(k) ==
    /\ call[k].st = "waiting"
    /\ fut[k].st = "pending"
    /\ now >= call[k].deadline
    /\ fut' = [fut EXCEPT ![k].st = "cancelled"]
    /\ call' = [call EXCEPT ![k].st = "timing_out", ![k].deadline = 0]
    /\ UNCHANGED <<now, _pending, raised, late, net, _listen_task>>
    /\ UNCHANGED <<assetVars, dispatcherVars, controllerVars, shutdownVars,
                   registryVars, aggregatorVars, handlerVars, inboundVars,
                   busVars, driverVars, calleeVars>>

\* `except asyncio.TimeoutError: self._pending.pop(request_id, None)`
OnTimeoutKeep(pending, request_id) == pending
OnTimeout(pending, request_id) == Pop(pending, request_id)

\* The caller runs the except clause and raises the RuntimeError.
TimeoutRaise(k) ==
    /\ call[k].st = "timing_out"
    /\ _pending' = OnTimeout(_pending, call[k].id)
    /\ call' = [call EXCEPT ![k].st = "timeout"]
    /\ UNCHANGED <<now, fut, raised, late, net, _listen_task>>
    /\ UNCHANGED <<assetVars, dispatcherVars, controllerVars, shutdownVars,
                   registryVars, aggregatorVars, handlerVars, inboundVars,
                   busVars, driverVars, calleeVars>>

\* The calling task is cancelled while suspended in invoke_method:
\* CancelledError is no TimeoutError, so nothing is popped.  A wait_for
\* that is cancelled cancels the future it waits for.
CancelCaller(k) ==
    /\ call[k].st \in {"publishing", "waiting"}
    /\ fut' = [fut EXCEPT ![k].st =
                 IF call[k].st = "waiting" /\ @ = "pending" THEN "cancelled" ELSE @]
    /\ call' = [call EXCEPT ![k].st = "cancelled", ![k].deadline = 0]
    /\ UNCHANGED <<now, _pending, raised, late, net, _listen_task>>
    /\ UNCHANGED <<assetVars, dispatcherVars, controllerVars, shutdownVars,
                   registryVars, aggregatorVars, handlerVars, inboundVars,
                   busVars, driverVars, calleeVars>>

Tick ==
    /\ now < MaxClock
    /\ _listen_task = "running"
    /\ now' = now + 1
    /\ UNCHANGED <<_pending, call, fut, raised, late, net, _listen_task>>
    /\ UNCHANGED <<assetVars, dispatcherVars, controllerVars, shutdownVars,
                   registryVars, aggregatorVars, handlerVars, inboundVars,
                   busVars, driverVars, calleeVars>>

InitTransportIdle == InitTransportVars

(***************************************************************************)
(* RPC round trip: the caller's client, the broker and the callee's client *)
(***************************************************************************)

\* client.on_method(handle_method) of the callee (after its connect()).
OnMethod ==
    /\ ~_method_handler
    /\ _listen_task = "running"
    /\ _method_handler' = TRUE
    /\ UNCHANGED <<now, _pending, call, fut, raised, late, net, _listen_task,
                   handled, sent>>
    /\ UNCHANGED <<assetVars, dispatcherVars, controllerVars, shutdownVars,
                   registryVars, aggregatorVars, handlerVars, inboundVars,
                   busVars, driverVars>>

\* `payload.pop("_request_id", f"{method_name}-{id(payload)}")`: the id
\* taken out of the payload, and the payload that remains.
DefaultId(method_name) == <<method_name, -1>>
EmbeddedIdIgnored(body, method_name) == DefaultId(method_name)
EmbeddedId(body, method_name) == Get(body, "_request_id", DefaultId(method_name))
WithoutId(body) == [x \in DOMAIN body \ {"_request_id"} |-> body[x]]

\* DirectMethodRequest / DirectMethodResponse
DirectMethodRequest(request_id, name, payload) ==
    [request_id |-> request_id, name |-> name, payload |-> payload]
DirectMethodResponse(request_id, status, payload) ==
    [request_id |-> request_id, status |-> status, payload |-> payload]

\* handle_method of the battery module for a command the battery applies
\* (200); an unknown method name gives 404.
HandleMethod(r) ==
    IF r.name \notin {"start_charging", "start_discharging"}
    THEN DirectMethodResponse(r.request_id, 404, [error |-> "Unknown method"])
    ELSE DirectMethodResponse(r.request_id, 200,
             [status |-> "charging", power_kw |-> r.payload.power_kw])

\* send_method_response: topic and body of the published message.
ResponseMessage(response) ==
    [topic |-> ResponseTopic(CalleeId, response.request_id),
     body |-> [status |-> response.status, payload |-> response.payload]]

\* _dispatch of the callee for a message on one of its method topics.
HandleInvocation(m) ==
    /\ m \in net
    /\ _listen_task = "running"
    /\ IsMethodTopic(m.topic, CalleeId)
    /\ IF _method_handler
       THEN LET method_name == m.topic[4]
                req == DirectMethodRequest(EmbeddedId(m.body, method_name),
                                           method_name, WithoutId(m.body))
                resp == HandleMethod(req)
            IN /\ handled' = handled (+) SetToBag({req})
               /\ sent' = sent (+) SetToBag({ResponseMessage(resp)})
               /\ net' = (net \ {m}) \cup {ResponseMessage(resp)}
       ELSE /\ net' = net \ {m}
            /\ UNCHANGED <<handled, sent>>
    /\ UNCHANGED <<now, _pending, call, fut, raised, late, _listen_task,
                   _method_handler>>
    /\ UNCHANGED <<assetVars, dispatcherVars, controllerVars, shutdownVars,
                   registryVars, aggregatorVars, handlerVars, inboundVars,
                   busVars, driverVars>>

\* The invocations a publisher can put on the callee's method topics: of a
\* method the callee knows or of one it does not, with a correlation id
\* embedded by invoke_method or without one.
InvokedNames == Methods \cup {"reboot"}
InvocationBodies ==
    {CallPayload(k) : k \in Calls}
      \cup {Outgoing(CallPayload(k), RequestId(name, t)) :
                k \in Calls, name \in InvokedNames, t \in 0..MaxClock}

\* The invocations that reached the callee so far and were not dropped.
Invocations ==
    BagCardinality(handled)
      + Cardinality({m \in net : IsMethodTopic(m.topic, CalleeId)})

\* A client publishes an invocation on edge/{callee}/methods/{name}.
PublishInvocation(name, body) ==
    /\ Invocations < NumCalls
    /\ net' = net \cup {[topic |-> MethodTopic(CalleeId, name), body |-> body]}
    /\ UNCHANGED <<now, _pending, call, fut, raised, late, _listen_task>>
    /\ UNCHANGED <<assetVars, dispatcherVars, controllerVars, shutdownVars,
                   registryVars, aggregatorVars, handlerVars, inboundVars,
                   busVars, driverVars, calleeVars>>

\* _dispatch of the caller for a response the broker hands to its listener.
ReceiveResponse(m) ==
    /\ m \in net
    /\ IsResponseTopic(m.topic)
    /\ DispatchResponse(m.topic[5], m.body)
    /\ net' = net \ {m}
    /\ UNCHANGED <<now, call, late, _listen_task>>
    /\ UNCHANGED <<assetVars, dispatcherVars, controllerVars, shutdownVars,
                   registryVars, aggregatorVars, handlerVars, inboundVars,
                   busVars, driverVars, calleeVars>>

\* A cancelled task leaves invoke_method at its await with CancelledError,
\* which `except asyncio.TimeoutError` does not catch; a cancelled wait_for
\* cancels its future.
Cancelled(c) ==
    IF c.st \in {"publishing", "waiting", "timing_out"}
    THEN [c EXCEPT !.st = "cancelled", !.deadline = 0]
    ELSE c

\* Shutdown of the controller: its tasks are cancelled, then disconnect()
\* cancels the listener and closes the connection.
Shutdown ==
    /\ _listen_task = "running"
    /\ call' = [k \in Calls |-> Cancelled(call[k])]
    /\ fut' = [k \in Calls |->
                 IF call[k].st = "waiting" /\ fut[k].st = "pending"
                 THEN [fut[k] EXCEPT !.st = "cancelled"]
                 ELSE fut[k]]
    /\ _listen_task' = "cancelled"
    /\ UNCHANGED <<now, _pending, raised, late, net>>
    /\ UNCHANGED <<assetVars, dispatcherVars, controllerVars, shutdownVars,
                   registryVars, aggregatorVars, handlerVars, inboundVars,
                   busVars, driverVars, calleeVars>>

(***************************************************************************)
(* Dispatcher: CommandDispatcher.send                                      *)
(***************************************************************************)
ModuleIds == {"battery-module", "solar-module"}
MethodNames == {"start_charging", "set_output"}

\* What the client's invoke_method does when it is awaited: it returns a
\* response payload, raises the RuntimeError of a timeout, or raises some
\* other Exception.
InvokeResults == {"ok", "timeout", "error"}
ScriptLen == MaxRetriesBound + 2

\* The payload returned by, and the exception raised by, the i-th invocation.
ResponsePayload(i) == <<"payload", i>>
Exc(i) == [type |-> transport[i], invocation |-> i]

InitDispatcherVars ==
    /\ _max_retries \in 0..MaxRetriesBound
    /\ request \in [module_id : ModuleIds, method_name : MethodNames]
    /\ transport \in [1..ScriptLen -> InvokeResults]
    /\ d_pc = "loop"
    /\ attempt = 1
    /\ invoked = <<>>
    /\ slept = 0
    /\ last_exc = {}
    /\ outcome = [kind |-> "none"]

InitDispatcherIdle ==
    /\ _max_retries = 0
    /\ request = [module_id |-> "battery-module", method_name |-> "start_charging"]
    /\ transport = [i \in 1..ScriptLen |-> "ok"]
    /\ d_pc = "done"
    /\ attempt = 1
    /\ invoked = <<>>
    /\ slept = 0
    /\ last_exc = {}
    /\ outcome = [kind |-> "none"]

\* range(1, self._max_retries + 2)
AttemptsOneLess(max_retries) == 1..max_retries
Attempts(max_retries) == 1..(max_retries + 1)

\* `if attempt <= self._max_retries` before the retry delay
ShouldSleepAlways(a, max_retries) == TRUE
ShouldSleep(a, max_retries) == a <= max_retries

\* `last_exc = exc`
LastExcFirst(prev, exc) == IF prev = {} THEN {exc} ELSE prev
LastExc(prev, exc) == {exc}

\* The RuntimeError raised after the loop.
CommandFailed ==
    [kind |-> "raised",
     module_id |-> request.module_id,
     method_name |-> request.method_name,
     attempts |-> _max_retries + 1,
     cause |-> last_exc']

\* The for loop takes its next value, or ends and send() raises.
NextAttempt ==
    IF attempt + 1 \in Attempts(_max_retries)
    THEN /\ attempt' = attempt + 1
         /\ d_pc' = "loop"
         /\ UNCHANGED outcome
    ELSE /\ outcome' = CommandFailed
         /\ d_pc' = "done"
         /\ UNCHANGED attempt

\* One iteration up to `await self._client.invoke_method(...)`.
SendInvoke ==
    /\ d_pc = "loop"
    /\ attempt \in Attempts(_max_retries)
    /\ invoked' = Append(invoked, request)
    /\ d_pc' = "invoking"
    /\ UNCHANGED <<_max_retries, request, transport, attempt, slept,
                   last_exc, outcome>>
    /\ UNCHANGED <<assetVars, transportVars, controllerVars, shutdownVars,
                   registryVars, aggregatorVars, handlerVars, inboundVars,
                   busVars, driverVars>>

\* invoke_method returns: send() returns its result.
SendSuccess ==
    /\ d_pc = "invoking"
    /\ transport[Len(invoked)] = "ok"
    /\ outcome' = [kind |-> "returned", payload |-> ResponsePayload(Len(invoked))]
    /\ d_pc' = "done"
    /\ UNCHANGED <<_max_retries, request, transport, attempt, invoked, slept,
                   last_exc>>
    /\ UNCHANGED <<assetVars, transportVars, controllerVars, shutdownVars,
                   registryVars, aggregatorVars, handlerVars, inboundVars,
                   busVars, driverVars>>

\* invoke_method raises an Exception: the except clause.
SendFailure ==
    /\ d_pc = "invoking"
    /\ transport[Len(invoked)] # "ok"
    /\ last_exc' = LastExc(last_exc, Exc(Len(invoked)))
    /\ IF ShouldSleep(attempt, _max_retries)
       THEN /\ d_pc' = "sleep"
            /\ UNCHANGED <<attempt, outcome>>
       ELSE NextAttempt
    /\ UNCHANGED <<_max_retries, request, transport, invoked, slept>>
    /\ UNCHANGED <<assetVars, transportVars, controllerVars, shutdownVars,
                   registryVars, aggregatorVars, handlerVars, inboundVars,
                   busVars, driverVars>>

\* asyncio.sleep(RETRY_DELAY_S) returns.
SendSlept ==
    /\ d_pc = "sleep"
    /\ slept' = slept + 1
    /\ UNCHANGED last_exc
    /\ NextAttempt
    /\ UNCHANGED <<_max_retries, request, transport, invoked>>
    /\ UNCHANGED <<assetVars, transportVars, controllerVars, shutdownVars,
                   registryVars, aggregatorVars, handlerVars, inboundVars,
                   busVars, driverVars>>

\* The task running send() is cancelled while it is suspended:
\* CancelledError is not caught by `except Exception`.
SendCancelled ==
    /\ d_pc \in {"invoking", "sleep"}
    /\ outcome' = [kind |-> "cancelled"]
    /\ d_pc' = "done"
    /\ UNCHANGED <<_max_retries, request, transport, attempt, invoked, slept,
                   last_exc>>
    /\ UNCHANGED <<assetVars, transportVars, controllerVars, shutdownVars,
                   registryVars, aggregatorVars, handlerVars, inboundVars,
                   busVars, driverVars>>

(***************************************************************************)
(* Controller: balancing_loop, and the other periodic loops                *)
(***************************************************************************)
\* SURPLUS_THRESHOLD_KW is read from the environment (default 10.0).
DefaultThreshold == 10
Thresholds == {DefaultThreshold, -DefaultThreshold}

\* The cap in `min(abs(balance), 50.0)`.
SafetyCap == 50

\* What a cycle's aggregation sees: the grid balance, and how many assets
\* report the FAULT state (at most MaxFaulted).
MaxFaulted == 1
Balances == {-60, -20, 0, 20, 60}

Abs(x) == IF x < 0 THEN -x ELSE x
Min(a, b) == IF a <= b THEN a ELSE b

\* Aggregator._check_alerts: one ASSET_FAULT per asset in FAULT, then
\* GRID_SURPLUS and GRID_DEFICIT by the threshold.  An alert is its code.
CheckAlerts(faulted, balance, threshold) ==
    [i \in 1..faulted |-> "ASSET_FAULT"]
      \o (IF balance > threshold THEN <<"GRID_SURPLUS">> ELSE <<>>)
      \o (IF balance < -threshold THEN <<"GRID_DEFICIT">> ELSE <<>>)

\* Aggregator.compute: the telemetry of a cycle.
AggregatedTelemetry(faulted, balance, threshold) ==
    [grid_balance_kw |-> balance,
     alerts |-> CheckAlerts(faulted, balance, threshold)]

\* power_kw = min(abs(balance), 50.0)
PowerKwUncapped(balance) == Abs(balance)
PowerKw(balance) == Min(Abs(balance), SafetyCap)

\* dispatcher.charge_battery / discharge_battery: the command send() gets.
Command(module_id, method_name, power_kw) ==
    [module_id |-> module_id, method_name |-> method_name,
     payload |-> [power_kw |-> power_kw]]

\* The periodic loops besides the balancing loop; the body of each makes
\* LoopSteps awaited or plain steps, then the loop sleeps.
OtherLoops == {"cloud_reporting_loop", "telemetry_loop"}
Loops == {"balancing_loop"} \cup OtherLoops
LoopSteps == 3

\* `except Exception: logger.exception(...)` at the loop boundary, followed
\* by the sleep: where a loop goes after a failure in its body.
AfterExceptionEnds(l) == "ended"
AfterException(l) == "sleep"

\* `except RuntimeError: logger.warning(...)` around one alert's command:
\* the for loop goes on with the next alert.
AfterCommandFailedAbort(i) == [b_pc |-> "sleep", alert_i |-> i]
AfterCommandFailed(i) == [b_pc |-> "alerts", alert_i |-> i + 1]

\* No telemetry: the local variable of balancing_loop is unbound before
\* compute returns, and its old value is dead when a cycle begins.
NoTelemetry == [grid_balance_kw |-> 0, alerts |-> <<>>]

InitControllerVars ==
    /\ surplus_threshold_kw \in Thresholds
    /\ telemetry = NoTelemetry
    /\ b_pc = "compute"
    /\ alert_i = 0
    /\ dispatched = <<>>
    /\ failed = {}
    /\ l_pc = [l \in OtherLoops |-> [at |-> "body", step |-> 1]]

\* The controller and the asset modules are not running.
InitControllerIdle ==
    /\ surplus_threshold_kw = DefaultThreshold
    /\ telemetry = NoTelemetry
    /\ b_pc = "cancelled"
    /\ alert_i = 0
    /\ dispatched = <<>>
    /\ failed = {}
    /\ l_pc = [l \in OtherLoops |-> [at |-> "cancelled", step |-> 0]]

\* telemetry = await aggregator.compute(registry)
Compute(faulted, balance) ==
    /\ b_pc = "compute"
    /\ telemetry' = AggregatedTelemetry(faulted, balance, surplus_threshold_kw)
    /\ b_pc' = "get_battery"
    /\ UNCHANGED <<surplus_threshold_kw, alert_i, dispatched, failed, l_pc>>
    /\ UNCHANGED <<assetVars, transportVars, dispatcherVars, shutdownVars,
                   registryVars, aggregatorVars, handlerVars, inboundVars,
                   busVars, driverVars>>

\* An Exception raised in the body outside the per-alert try (in compute or
\* in registry.get) reaches `except Exception` of balancing_loop.
BodyRaises ==
    /\ b_pc \in {"compute", "get_battery"}
    /\ b_pc' = AfterException("balancing_loop")
    /\ UNCHANGED <<surplus_threshold_kw, telemetry, alert_i, dispatched,
                   failed, l_pc>>
    /\ UNCHANGED <<assetVars, transportVars, dispatcherVars, shutdownVars,
                   registryVars, aggregatorVars, handlerVars, inboundVars,
                   busVars, driverVars>>

\* battery = await registry.get(...); the for loop over the alerts begins.
GetBattery ==
    /\ b_pc = "get_battery"
    /\ b_pc' = "alerts"
    /\ alert_i' = 1
    /\ UNCHANGED <<surplus_threshold_kw, telemetry, dispatched, failed, l_pc>>
    /\ UNCHANGED <<assetVars, transportVars, dispatcherVars, shutdownVars,
                   registryVars, aggregatorVars, handlerVars, inboundVars,
                   busVars, driverVars>>

\* One round of `for alert in telemetry.alerts` up to its await, or the end
\* of the for loop, the "Grid report" log and the way to the sleep.
ApplyAlert ==
    /\ b_pc = "alerts"
    /\ IF alert_i > Len(telemetry.alerts)
       THEN /\ b_pc' = "sleep"
            /\ UNCHANGED <<alert_i, dispatched>>
       ELSE LET code == telemetry.alerts[alert_i]
                power_kw == PowerKw(telemetry.grid_balance_kw)
            IN CASE code = "GRID_SURPLUS" ->
                      /\ dispatched' = Append(dispatched,
                             Command(CalleeId, "start_charging", power_kw))
                      /\ b_pc' = "send"
                      /\ UNCHANGED alert_i
                 [] code = "GRID_DEFICIT" ->
                      /\ dispatched' = Append(dispatched,
                             Command(CalleeId, "start_discharging", power_kw))
                      /\ b_pc' = "send"
                      /\ UNCHANGED alert_i
                 [] OTHER ->
                      /\ alert_i' = alert_i + 1
                      /\ UNCHANGED <<b_pc, dispatched>>
    /\ UNCHANGED <<surplus_threshold_kw, telemetry, failed, l_pc>>
    /\ UNCHANGED <<assetVars, transportVars, dispatcherVars, shutdownVars,
                   registryVars, aggregatorVars, handlerVars, inboundVars,
                   busVars, driverVars>>

\* dispatcher.send returns the response payload.
SendReturns ==
    /\ b_pc = "send"
    /\ b_pc' = "alerts"
    /\ alert_i' = alert_i + 1
    /\ UNCHANGED <<surplus_threshold_kw, telemetry, dispatched, failed, l_pc>>
    /\ UNCHANGED <<assetVars, transportVars, dispatcherVars, shutdownVars,
                   registryVars, aggregatorVars, handlerVars, inboundVars,
                   busVars, driverVars>>

\* dispatcher.send raises its RuntimeError after the last attempt.
SendRaises ==
    /\ b_pc = "send"
    /\ failed' = failed \cup {alert_i}
    /\ b_pc' = AfterCommandFailed(alert_i).b_pc
    /\ alert_i' = AfterCommandFailed(alert_i).alert_i
    /\ UNCHANGED <<surplus_threshold_kw, telemetry, dispatched, l_pc>>
    /\ UNCHANGED <<assetVars, transportVars, dispatcherVars, shutdownVars,
                   registryVars, aggregatorVars, handlerVars, inboundVars,
                   busVars, driverVars>>

\* await asyncio.sleep(REPORTING_INTERVAL_S) returns: the next cycle begins.
BalancingWake ==
    /\ b_pc = "sleep"
    /\ b_pc' = "compute"
    /\ alert_i' = 0
    /\ dispatched' = <<>>
    /\ failed' = {}
    /\ telemetry' = NoTelemetry
    /\ UNCHANGED <<surplus_threshold_kw, l_pc>>
    /\ UNCHANGED <<assetVars, transportVars, dispatcherVars, shutdownVars,
                   registryVars, aggregatorVars, handlerVars, inboundVars,
                   busVars, driverVars>>

\* task.cancel(): CancelledError is raised at the await the loop is at; it
\* is no Exception, so neither except clause catches it.
CancelBalancing ==
    /\ b_pc \in {"compute", "get_battery", "send", "sleep"}
    /\ b_pc' = "cancelled"
    /\ UNCHANGED <<surplus_threshold_kw, telemetry, alert_i, dispatched,
                   failed, l_pc>>
    /\ UNCHANGED <<assetVars, transportVars, dispatcherVars, shutdownVars,
                   registryVars, aggregatorVars, handlerVars, inboundVars,
                   busVars, driverVars>>

\* A step of the body of cloud_reporting_loop or of a telemetry_loop
\* returns; after the last one the loop sleeps.
LoopStep(l) ==
    /\ l_pc[l].at = "body"
    /\ l_pc' = [l_pc EXCEPT ![l] =
                  IF l_pc[l].step < LoopSteps
                  THEN [at |-> "body", step |-> l_pc[l].step + 1]
                  ELSE [at |-> "sleep", step |-> 0]]
    /\ UNCHANGED <<surplus_threshold_kw, telemetry, b_pc, alert_i, dispatched,
                   failed>>
    /\ UNCHANGED <<assetVars, transportVars, dispatcherVars, shutdownVars,
                   registryVars, aggregatorVars, handlerVars, inboundVars,
                   busVars, driverVars>>

\* A step of the body raises an Exception.
LoopRaises(l) ==
    /\ l_pc[l].at = "body"
    /\ l_pc' = [l_pc EXCEPT ![l] =
                  [at |-> AfterException(l), step |-> l_pc[l].step]]
    /\ UNCHANGED <<surplus_threshold_kw, telemetry, b_pc, alert_i, dispatched,
                   failed>>
    /\ UNCHANGED <<assetVars, transportVars, dispatcherVars, shutdownVars,
                   registryVars, aggregatorVars, handlerVars, inboundVars,
                   busVars, driverVars>>

\* The sleep of the loop returns.
LoopWake(l) ==
    /\ l_pc[l].at = "sleep"
    /\ l_pc' = [l_pc EXCEPT ![l] = [at |-> "body", step |-> 1]]
    /\ UNCHANGED <<surplus_threshold_kw, telemetry, b_pc, alert_i, dispatched,
                   failed>>
    /\ UNCHANGED <<assetVars, transportVars, dispatcherVars, shutdownVars,
                   registryVars, aggregatorVars, handlerVars, inboundVars,
                   busVars, driverVars>>

\* The task of the loop is cancelled.
CancelLoop(l) ==
    /\ l_pc[l].at \in {"body", "sleep"}
    /\ l_pc' = [l_pc EXCEPT ![l] = [at |-> "cancelled", step |-> 0]]
    /\ UNCHANGED <<surplus_threshold_kw, telemetry, b_pc, alert_i, dispatched,
                   failed>>
    /\ UNCHANGED <<assetVars, transportVars, dispatcherVars, shutdownVars,
                   registryVars, aggregatorVars, handlerVars, inboundVars,
                   busVars, driverVars>>

\* Where a loop is: in its body, asleep, cancelled (or ended otherwise).
LoopAt(l) ==
    IF l = "balancing_loop"
    THEN IF b_pc \in {"compute", "get_battery", "alerts", "send", "retry_delay"}
         THEN "body" ELSE b_pc
    ELSE l_pc[l].at

(***************************************************************************)
(* Shutdown: the stop signal, task.cancel() and CancelledError             *)
(***************************************************************************)
\* The process each loop is a task of.
Procs == {"controller-module", "asset-module"}
ProcOf(l) == IF l = "telemetry_loop" THEN "asset-module" ELSE "controller-module"

\* `except Exception`: CancelledError derives from BaseException only.
IsExceptionAny(exc) == TRUE
IsException(exc) == exc # "CancelledError"

\* Where balancing_loop goes when exc is raised at the await it is at:
\* inside an attempt of send() it meets `except Exception` of send, which
\* leads to the retry delay; in the retry delay (inside that except block),
\* in compute and in registry.get it meets `except Exception` of the loop;
\* the sleep of the loop is outside every try.  An exception nothing
\* catches ends the task.
BalancingRaise(at, exc) ==
    CASE at = "send" /\ IsException(exc) -> "retry_delay"
      [] at \in {"compute", "get_battery", "retry_delay"} /\ IsException(exc) ->
           AfterException("balancing_loop")
      [] OTHER -> IF exc = "CancelledError" THEN "cancelled" ELSE "ended"

\* The same for cloud_reporting_loop and the telemetry loops.
LoopRaise(l, at, exc) ==
    IF at = "body" /\ IsException(exc)
    THEN AfterException(l)
    ELSE IF exc = "CancelledError" THEN "cancelled" ELSE "ended"

InitShutdownVars ==
    /\ stop_event = {}
    /\ must_cancel = {}
    /\ cancelled_at = [l \in Loops |-> "none"]

InitShutdownIdle == InitShutdownVars

\* The task of the loop runs on: task.cancel() has not been called on it.
Running(l) == l \notin must_cancel

\* An attempt of send() fails and attempts are left: the retry delay begins.
AttemptFails ==
    /\ b_pc = "send"
    /\ b_pc' = BalancingRaise("send", "Exception")
    /\ UNCHANGED <<surplus_threshold_kw, telemetry, alert_i, dispatched,
                   failed, l_pc>>
    /\ UNCHANGED <<assetVars, transportVars, dispatcherVars, shutdownVars,
                   registryVars, aggregatorVars, handlerVars, inboundVars,
                   busVars, driverVars>>

\* await asyncio.sleep(RETRY_DELAY_S) returns: the next attempt begins.
RetryWake ==
    /\ b_pc = "retry_delay"
    /\ b_pc' = "send"
    /\ UNCHANGED <<surplus_threshold_kw, telemetry, alert_i, dispatched,
                   failed, l_pc>>
    /\ UNCHANGED <<assetVars, transportVars, dispatcherVars, shutdownVars,
                   registryVars, aggregatorVars, handlerVars, inboundVars,
                   busVars, driverVars>>

\* SIGTERM / SIGINT: stop_event is set, main wakes up and calls cancel() on
\* each of its loop tasks.
ShutdownSignal(proc) ==
    /\ proc \notin stop_event
    /\ stop_event' = stop_event \cup {proc}
    /\ must_cancel' = must_cancel \cup
          {l \in Loops : ProcOf(l) = proc /\ LoopAt(l) \in {"body", "sleep"}}
    /\ UNCHANGED <<cancelled_at, controllerVars>>
    /\ UNCHANGED <<assetVars, transportVars, dispatcherVars, registryVars,
                   aggregatorVars, handlerVars, inboundVars, busVars,
                   driverVars>>

\* The event loop runs the task cancel() was called on: CancelledError is
\* raised at the await the loop is suspended at.
DeliverCancel(l) ==
    /\ l \in must_cancel
    /\ must_cancel' = must_cancel \ {l}
    /\ IF l = "balancing_loop"
       THEN /\ cancelled_at' = [cancelled_at EXCEPT ![l] = b_pc]
            /\ b_pc' = BalancingRaise(b_pc, "CancelledError")
            /\ UNCHANGED l_pc
       ELSE /\ cancelled_at' = [cancelled_at EXCEPT ![l] = l_pc[l].at]
            /\ l_pc' = [l_pc EXCEPT ![l] =
                          [at |-> LoopRaise(l, l_pc[l].at, "CancelledError"),
                           step |-> 0]]
            /\ UNCHANGED b_pc
    /\ UNCHANGED <<stop_event, surplus_threshold_kw, telemetry, alert_i,
                   dispatched, failed>>
    /\ UNCHANGED <<assetVars, transportVars, dispatcherVars, registryVars,
                   aggregatorVars, handlerVars, inboundVars, busVars,
                   driverVars>>

(***************************************************************************)
(* Registry: AssetRegistry and _extract_power_kw                           *)
(***************************************************************************)
\* A number in a telemetry message, and a value float() cannot convert.
Num(n) == [num |-> n]
NotANumber == [text |-> "n/a"]

\* float(v): the number, or ValueError.
FloatRaises(v) == "num" \notin DOMAIN v
Float(v) == v.num

\* The timestamp the modules put into their telemetry (an instant after
\* every reading of the wall clock made here).
SentAt == 100

\* Telemetry messages as the message handler gets them: of the three asset
\* types and of an unknown one, with and without timestamp, with fields
\* missing, with an absent or empty asset_id, with a power that is no number.
TelemetryMessages ==
    { [asset_id |-> "solar-01", asset_type |-> "solar_inverter",
       state |-> "RUNNING", power_output_kw |-> Num(50), timestamp |-> SentAt],
      [asset_id |-> "solar-01", asset_type |-> "solar_inverter",
       state |-> "RUNNING", power_output_kw |-> Num(75)],
      [asset_id |-> "solar-01", asset_type |-> "solar_inverter",
       state |-> "FAULT", power_output_kw |-> Num(0), power_kw |-> Num(5)],
      [asset_id |-> "solar-01", asset_type |-> "wind_turbine",
       power_kw |-> Num(20)],
      [asset_id |-> "battery-01", asset_type |-> "battery_storage",
       state |-> "CHARGING", power_kw |-> Num(30), timestamp |-> SentAt],
      [asset_id |-> "battery-01", asset_type |-> "battery_storage",
       state |-> "DISCHARGING", power_kw |-> Num(-30)],
      [asset_id |-> "battery-01", asset_type |-> "battery_storage",
       state |-> "CHARGING", power_kw |-> NotANumber, timestamp |-> SentAt],
      [asset_id |-> "boiler-01", asset_type |-> "industrial_boiler",
       state |-> "RUNNING", power_kw |-> Num(100), timestamp |-> SentAt],
      [asset_id |-> "boiler-01"],
      [state |-> "RUNNING"],
      [asset_id |-> "", asset_type |-> "battery_storage",
       power_kw |-> Num(30)] }

\* _extract_power_kw: the field read for the asset type, and its sign.
PowerField(data) ==
    LET asset_type == Get(data, "asset_type", "")
    IN CASE asset_type = "solar_inverter" ->
              Get(data, "power_output_kw", Num(0))
         [] asset_type \in {"battery_storage", "industrial_boiler"} ->
              Get(data, "power_kw", Num(0))
         [] OTHER ->
              Get(data, "power_kw", Get(data, "power_output_kw", Num(0)))
ExtractSign(data) ==
    IF Get(data, "asset_type", "") \in {"battery_storage", "industrial_boiler"}
    THEN -1 ELSE 1
ExtractPowerKwUnsigned(data) == Float(PowerField(data))
ExtractPowerKw(data) == ExtractSign(data) * Float(PowerField(data))

\* `if not asset_id: return`: an absent (None) or empty asset_id is dropped.
AcceptsAny(data) == TRUE
Accepts(data) == Get(data, "asset_id", "") # ""

\* update(data) stores a snapshot: the asset_id passes the check and the
\* power converts.
Stores(data) == Accepts(data) /\ ~FloatRaises(PowerField(data))

\* The AssetSnapshot update() builds from the message at wall-clock time t.
\* SnapshotKeepingOld is a partial update: it keeps the stored last_seen of
\* an asset that is already present.
SnapshotKeepingOld(data, t) ==
    [asset_id |-> Get(data, "asset_id", ""),
     asset_type |-> Get(data, "asset_type", "unknown"),
     state |-> Get(data, "state", "UNKNOWN"),
     power_kw |-> ExtractPowerKw(data),
     last_seen |-> IF Get(data, "asset_id", "") \in DOMAIN _assets
                   THEN _assets[Get(data, "asset_id", "")].last_seen
                   ELSE Get(data, "timestamp", t),
     raw |-> data]
Snapshot(data, t) ==
    [asset_id |-> Get(data, "asset_id", ""),
     asset_type |-> Get(data, "asset_type", "unknown"),
     state |-> Get(data, "state", "UNKNOWN"),
     power_kw |-> ExtractPowerKw(data),
     last_seen |-> Get(data, "timestamp", t),
     raw |-> data]

\* count(): len(self._assets)
Count == Cardinality(DOMAIN _assets)

\* The tasks of the controller that call the registry: the listener's
\* message handler writes, the two loops read.
RegistryTasks == {"listener", "balancing_loop", "cloud_reporting_loop"}

\* The messages of two assets, with a timestamp or in FAULT, that update()
\* stores a snapshot for.
StoredMessages ==
    {data \in TelemetryMessages :
        /\ Stores(data)
        /\ data.asset_id \in {"solar-01", "battery-01"}
        /\ "timestamp" \in DOMAIN data \/ Get(data, "state", "") = "FAULT"}

RegistryCalls(t) ==
    IF t = "listener"
    THEN {[op |-> "update", data |-> data] : data \in StoredMessages}
    ELSE {[op |-> "get_all"], [op |-> "count"],
          [op |-> "get", asset_id |-> "battery-01"]}

NotInCall == [at |-> "idle"]
NoResult == [kind |-> "none"]

\* dict.values()
Values(assets) == {assets[k] : k \in DOMAIN assets}

\* list(self._assets.values()): a new list of the snapshots.  ListView is
\* the dict's live view instead.
ListView(assets) == [kind |-> "view"]
ListOf(assets) == [kind |-> "list", items |-> Values(assets)]

\* The snapshots a returned list holds now.
Items(res) == IF res.kind = "view" THEN Values(_assets) ELSE res.items

\* What get_all(), get(asset_id) and count() return from the map.
ReadResult(rcall, assets) ==
    CASE rcall.op = "get_all" -> ListOf(assets)
      [] rcall.op = "get" ->
           IF rcall.asset_id \in DOMAIN assets
           THEN [kind |-> "snapshot", value |-> assets[rcall.asset_id]]
           ELSE [kind |-> "None"]
      [] rcall.op = "count" ->
           [kind |-> "int", value |-> Cardinality(DOMAIN assets)]

InitRegistryVars ==
    /\ reg_lock = "free"
    /\ r_call = [t \in RegistryTasks |-> NotInCall]
    /\ r_result = [t \in RegistryTasks |-> NoResult]
    /\ r_during = [t \in RegistryTasks |-> {}]
    /\ _assets = <<>>
    /\ wall = 0
    /\ accepted = {}
    /\ replaced = {}
    /\ r_outcome = "none"

InitRegistryIdle == InitRegistryVars

\* await registry.update(data).  The lock is never held across an await, so
\* the call finds it free and runs without suspension.
Update(data) ==
    /\ IF ~Accepts(data)
       THEN /\ r_outcome' = "dropped"
            /\ UNCHANGED <<_assets, accepted, replaced>>
       ELSE IF FloatRaises(PowerField(data))
            THEN /\ r_outcome' = "raised"
                 /\ UNCHANGED <<_assets, accepted, replaced>>
            ELSE /\ _assets' = Put(_assets, Get(data, "asset_id", ""),
                                   Snapshot(data, wall))
                 /\ accepted' = accepted \cup {Get(data, "asset_id", "")}
                 /\ replaced' = replaced \cup
                        ({Get(data, "asset_id", "")} \cap DOMAIN _assets)
                 /\ r_outcome' = "stored"
    /\ UNCHANGED <<wall, reg_lock, r_call, r_result, r_during>>
    /\ UNCHANGED <<assetVars, transportVars, dispatcherVars, controllerVars,
                   shutdownVars, aggregatorVars, handlerVars, inboundVars,
                   busVars, driverVars>>

\* Time passes.
WallTick ==
    /\ wall < MaxClock
    /\ wall' = wall + 1
    /\ UNCHANGED <<_assets, accepted, replaced, r_outcome, reg_lock, r_call,
                   r_result, r_during>>
    /\ UNCHANGED <<assetVars, transportVars, dispatcherVars, controllerVars,
                   shutdownVars, aggregatorVars, handlerVars, inboundVars,
                   busVars, driverVars>>

(***************************************************************************)
(* Aggregator: compute and _check_alerts, powers in thousandths of kW      *)
(***************************************************************************)
\* round(x, 2) of x thousandths: the nearest hundredth, in thousandths; a
\* tie goes to the even hundredth.
Round2(x) ==
    LET q == x \div 10
        r == x % 10
    IN IF r < 5 THEN 10 * q
       ELSE IF r > 5 THEN 10 * (q + 1)
       ELSE IF q % 2 = 0 THEN 10 * q ELSE 10 * (q + 1)
NoRound(x) == x

\* The assets in the order get_all() lists them, the states and the stored
\* powers (thousandths of kW, none of them half a hundredth) of a snapshot.
AssetOrder == <<"solar-01", "battery-01", "boiler-01">>
SnapshotStates == {"RUNNING", "FAULT"}
StoredPowers == {-10004, -12, 0, 6, 10000, 10004}
Absent == [present |-> FALSE]
SnapshotChoices ==
    {Absent} \cup [present : {TRUE}, state : SnapshotStates,
                   power_kw : StoredPowers]
SnapshotList(f) ==
    SelectSeq([i \in 1..Len(AssetOrder) |->
                  IF f[i].present
                  THEN [asset_id |-> AssetOrder[i], state |-> f[i].state,
                        power_kw |-> f[i].power_kw, present |-> TRUE]
                  ELSE Absent],
              LAMBDA s : s.present)
SnapshotLists ==
    {SnapshotList(f) : f \in [1..Len(AssetOrder) -> SnapshotChoices]}

\* The thresholds an Aggregator is built with, in thousandths of kW.
AggThresholds == {DefaultThreshold * 1000, 0, 0 - DefaultThreshold * 1000}

RECURSIVE SumPositive(_)
SumPositive(snaps) ==
    IF snaps = <<>> THEN 0
    ELSE (IF Head(snaps).power_kw > 0 THEN Head(snaps).power_kw ELSE 0)
           + SumPositive(Tail(snaps))

RECURSIVE SumNegativeAbs(_)
SumNegativeAbs(snaps) ==
    IF snaps = <<>> THEN 0
    ELSE (IF Head(snaps).power_kw < 0 THEN Abs(Head(snaps).power_kw) ELSE 0)
           + SumNegativeAbs(Tail(snaps))

GridAlert(severity, code, asset_id) ==
    [severity |-> severity, code |-> code, asset_id |-> asset_id]

\* _check_alerts, the loop over the snapshots.  FaultAlertsOnce reports
\* the first faulted asset only.
FaultAlertsOnce(snaps) ==
    LET faulted == SelectSeq(snaps, LAMBDA s : s.state = "FAULT")
    IN IF faulted = <<>> THEN <<>>
       ELSE <<GridAlert("critical", "ASSET_FAULT", faulted[1].asset_id)>>
FaultAlerts(snaps) ==
    LET faulted == SelectSeq(snaps, LAMBDA s : s.state = "FAULT")
    IN [i \in 1..Len(faulted) |->
          GridAlert("critical", "ASSET_FAULT", faulted[i].asset_id)]

\* _check_alerts, the two comparisons of the balance with the threshold.
BalanceAlerts(balance, threshold) ==
    (IF balance > threshold
     THEN <<GridAlert("warning", "GRID_SURPLUS", "None")>> ELSE <<>>)
      \o (IF balance < -threshold
          THEN <<GridAlert("warning", "GRID_DEFICIT", "None")>> ELSE <<>>)

CheckAlertsOf(snaps, balance, threshold) ==
    FaultAlerts(snaps) \o BalanceAlerts(balance, threshold)

\* Aggregator.compute on the list get_all() returned.
ComputeOf(snaps, threshold) ==
    LET generation == SumPositive(snaps)
        consumption == SumNegativeAbs(snaps)
        balance == generation - consumption
        alerts == CheckAlertsOf(snaps, balance, threshold)
    IN [total_generation_kw |-> Round2(generation),
        total_consumption_kw |-> Round2(consumption),
        grid_balance_kw |-> Round2(balance),
        asset_count |-> Len(snaps),
        alerts |-> alerts]

NotComputed == [asset_count |-> -1]

InitAggregatorVars ==
    /\ snapshots \in SnapshotLists
    /\ agg_threshold \in AggThresholds
    /\ computed = NotComputed

InitAggregatorIdle ==
    /\ snapshots = <<>>
    /\ agg_threshold = DefaultThreshold * 1000
    /\ computed = NotComputed

\* telemetry = await aggregator.compute(registry)
AggregatorCompute ==
    /\ computed = NotComputed
    /\ computed' = ComputeOf(snapshots, agg_threshold)
    /\ UNCHANGED <<snapshots, agg_threshold>>
    /\ UNCHANGED <<assetVars, transportVars, dispatcherVars, controllerVars,
                   shutdownVars, registryVars, handlerVars, inboundVars,
                   busVars, driverVars>>

(***************************************************************************)
(* Method handlers: handle_method of the solar, boiler and battery modules *)
(***************************************************************************)
HandlerModules == {"solar-module", "boiler-module", "battery-module"}

\* The method names each handler has a branch for.
KnownMethods(module) ==
    CASE module = "solar-module" -> {"start", "stop", "set_output", "reset"}
      [] module = "boiler-module" ->
           {"start", "stop", "set_temperature", "reset"}
      [] module = "battery-module" ->
           {"start_charging", "start_discharging", "stop", "reset"}

\* The payload key a method's argument is read from.
ArgKey(name) ==
    CASE name = "set_output" -> "target_kw"
      [] name = "set_temperature" -> "target_celsius"
      [] OTHER -> "power_kw"

\* Requests: every method of the three modules and an unknown one, with the
\* argument in range, out of range, not a number, or missing.
HandlerNames ==
    {"start", "stop", "reset", "set_output", "set_temperature",
     "start_charging", "start_discharging", "reboot"}
HandlerArgs == {Num(50), Num(500), NotANumber}
HandlerPayloads(name) ==
    {<<>>} \cup {(ArgKey(name) :> a) : a \in HandlerArgs}
HandlerRequests ==
    UNION {{DirectMethodRequest(id, name, payload) :
               id \in {"r1", "r2"}, payload \in HandlerPayloads(name)} :
           name \in HandlerNames}

\* The safe range of set_temperature, and the battery's MAX_POWER_KW default.
InSafeRange(celsius) == 40 <= celsius /\ celsius <= 120
MaxPowerKw == Num(100)

\* What the branch of the handler for the request does: it returns
\* ("applied", or "ignored" by the driver), or raises.
Outcome(module, asset, req) ==
    LET arg == req.payload[ArgKey(req.name)]
        has_arg == ArgKey(req.name) \in DOMAIN req.payload
    IN CASE req.name \notin KnownMethods(module) -> "unknown"
         [] req.name = "start" ->
              IF asset.state = "IDLE" THEN "applied" ELSE "ignored"
         [] req.name = "stop" /\ module # "battery-module" ->
              IF asset.state = "RUNNING" THEN "applied" ELSE "ignored"
         [] req.name = "stop" /\ module = "battery-module" -> "applied"
         [] req.name = "reset" ->
              IF asset.state = "FAULT" THEN "applied" ELSE "ignored"
         [] req.name = "set_output" ->
              IF ~has_arg THEN "KeyError"
              ELSE IF FloatRaises(arg) THEN "ValueError"
              ELSE IF asset.state # "RUNNING" THEN "RuntimeError"
              ELSE "applied"
         [] req.name = "set_temperature" ->
              IF ~has_arg THEN "KeyError"
              ELSE IF FloatRaises(arg) THEN "ValueError"
              ELSE IF asset.state # "RUNNING" THEN "RuntimeError"
              ELSE IF ~InSafeRange(Float(arg)) THEN "ValueError"
              ELSE "applied"
         [] req.name = "start_charging" ->
              IF FloatRaises(IF has_arg THEN arg ELSE MaxPowerKw)
              THEN "ValueError"
              ELSE IF asset.battery_state \notin
                        {"IDLE", "RUNNING", "DISCHARGING"}
                      \/ asset.soc = "max"
              THEN "RuntimeError" ELSE "applied"
         [] req.name = "start_discharging" ->
              IF FloatRaises(IF has_arg THEN arg ELSE MaxPowerKw)
              THEN "ValueError"
              ELSE IF asset.battery_state \notin
                        {"IDLE", "RUNNING", "CHARGING"}
                      \/ asset.soc = "min"
              THEN "RuntimeError" ELSE "applied"

\* The except clauses: the status each module's handler answers an
\* exception with.
Status(module, ended) ==
    CASE ended = "unknown" -> 404
      [] ended \in {"applied", "ignored"} -> 200
      [] ended = "RuntimeError" -> 409
      [] ended = "ValueError" /\ module = "boiler-module" -> 409
      [] OTHER -> 500

\* handle_method(request)
HandleMethodOf(module, asset, req) ==
    LET ended == Outcome(module, asset, req)
    IN DirectMethodResponse(req.request_id, Status(module, ended),
                            [outcome |-> ended])

\* The driver after the command, when the driver applied it.
AssetAfter(module, asset, req) ==
    IF Outcome(module, asset, req) # "applied" THEN asset
    ELSE CASE req.name = "start" -> [asset EXCEPT !.state = "RUNNING"]
           [] req.name = "stop" ->
                IF module = "battery-module"
                THEN [asset EXCEPT !.battery_state = "IDLE"]
                ELSE [asset EXCEPT !.state = "IDLE"]
           [] req.name = "reset" -> [asset EXCEPT !.state = "IDLE"]
           [] req.name = "start_charging" ->
                [asset EXCEPT !.battery_state = "CHARGING"]
           [] req.name = "start_discharging" ->
                [asset EXCEPT !.battery_state = "DISCHARGING"]
           [] OTHER ->
                [asset EXCEPT !.target = Float(req.payload[ArgKey(req.name)])]

NoRequest == [request_id |-> "None"]

InitHandlerVars ==
    /\ h_module \in HandlerModules
    /\ h_asset \in [state : {"IDLE"}, battery_state : {"IDLE"},
                    soc : {"min", "mid", "max"}, target : {0}]
    /\ h_module # "battery-module" => h_asset.soc = "mid"
    /\ h_request = NoRequest
    /\ h_response = NoRequest

InitHandlerIdle ==
    /\ h_module = "solar-module"
    /\ h_asset = [state |-> "IDLE", battery_state |-> "IDLE", soc |-> "mid",
                  target |-> 0]
    /\ h_request = NoRequest
    /\ h_response = NoRequest

\* The client's _dispatch awaits the registered handler with a request.
HandlerCall(req) ==
    /\ h_request' = req
    /\ h_response' = HandleMethodOf(h_module, h_asset, req)
    /\ h_asset' = AssetAfter(h_module, h_asset, req)
    /\ UNCHANGED h_module
    /\ UNCHANGED <<assetVars, transportVars, dispatcherVars, controllerVars,
                   shutdownVars, registryVars, aggregatorVars, inboundVars,
                   busVars, driverVars>>

\* The driver faults (fault(code)).
HandlerAssetFaults ==
    /\ h_asset.state # "FAULT"
    /\ h_asset' = [h_asset EXCEPT !.state = "FAULT",
                                  !.battery_state = "FAULT"]
    /\ UNCHANGED <<h_module, h_request, h_response>>
    /\ UNCHANGED <<assetVars, transportVars, dispatcherVars, controllerVars,
                   shutdownVars, registryVars, aggregatorVars, inboundVars,
                   busVars, driverVars>>

(***************************************************************************)
(* Inbound dispatch: _listen_loop and _dispatch of one client              *)
(***************************************************************************)
MaxInbound == 3

\* Messages the broker delivers to the client: on a method-response topic
\* (with the id of the topic), on one of its method topics, or on an input
\* or routed output topic; the payload is not JSON, a JSON object, a JSON
\* array, or a JSON object the handler raises on (a telemetry message with a
\* power that is no number, a request whose handler fails).
InboundIds == {"a", "b"}
InboundBodies == {"undecodable", "object", "array", "object_handler_raises"}
InboundMessages ==
    [class : {"response"}, id : InboundIds, body : InboundBodies]
      \cup [class : {"method", "data"}, id : {"None"}, body : InboundBodies]

\* `except (json.JSONDecodeError, ValueError): continue`
OnDecodeErrorEnds(listen) == "ended"
OnDecodeError(listen) == listen

\* `except Exception: logger.exception("MQTT listener crashed")` around the
\* whole `async for`: the listener after _dispatch raised.
OnDispatchError(listen) == "ended"

\* What _dispatch does with a decoded message.
DispatchOutcome(m) ==
    CASE m.class = "response" ->
           IF m.id \in DOMAIN in_pending /\ in_pending[m.id] = "pending"
           THEN IF m.body = "array" THEN "raised" ELSE "resolved"
           ELSE "dropped"
      [] m.class \notin in_handlers -> "dropped"
      [] m.body = "object" -> "dispatched"
      [] OTHER -> "raised"

InitInboundVars ==
    /\ in_listen = "running"
    /\ in_pending = <<>>
    /\ in_handlers = {}
    /\ in_count = 0
    /\ in_last = "none"

InitInboundIdle == InitInboundVars

\* client.on_method(handler) / client.on_message(handler)
InboundRegister(class) ==
    /\ class \notin in_handlers
    /\ in_handlers' = in_handlers \cup {class}
    /\ UNCHANGED <<in_listen, in_pending, in_count, in_last>>
    /\ UNCHANGED <<assetVars, transportVars, dispatcherVars, controllerVars,
                   shutdownVars, registryVars, aggregatorVars, handlerVars,
                   busVars, driverVars>>

\* invoke_method stores a future under its request id.
InboundInvoke(id) ==
    /\ id \notin DOMAIN in_pending
    /\ in_pending' = Put(in_pending, id, "pending")
    /\ UNCHANGED <<in_listen, in_handlers, in_count, in_last>>
    /\ UNCHANGED <<assetVars, transportVars, dispatcherVars, controllerVars,
                   shutdownVars, registryVars, aggregatorVars, handlerVars,
                   busVars, driverVars>>

\* One pass of the `async for` of _listen_loop for a delivered message.
InboundDeliver(m) ==
    /\ in_listen = "running"
    /\ in_count < MaxInbound
    /\ in_count' = in_count + 1
    /\ IF m.body = "undecodable"
       THEN /\ in_listen' = OnDecodeError(in_listen)
            /\ in_last' = "dropped"
            /\ UNCHANGED in_pending
       ELSE /\ in_last' = DispatchOutcome(m)
            /\ in_pending' = IF m.class = "response"
                             THEN Pop(in_pending, m.id) ELSE in_pending
            /\ in_listen' = IF DispatchOutcome(m) = "raised"
                            THEN OnDispatchError(in_listen) ELSE in_listen
    /\ UNCHANGED in_handlers
    /\ UNCHANGED <<assetVars, transportVars, dispatcherVars, controllerVars,
                   shutdownVars, registryVars, aggregatorVars, handlerVars,
                   busVars, driverVars>>

(***************************************************************************)
(* Command path: CommandDispatcher.send over the clients and the broker    *)
(***************************************************************************)
\* The modules whose clients call invoke_method (the controller, through
\* send(), and one other module), the modules they call, and the method.
Controller == "controller-module"
BusCallers == {Controller, "telemetry-module"}
BusTargets == {"battery-module", "solar-module"}
BusMethod == "stop"

\* The largest max_retries of the controller's send(), and its target.
MaxBusRetries == 1
SendTarget == "battery-module"

\* The status codes a method handler answers with.
Statuses == {200, 404, 409, 500}

\* The payload of a handler's response to the invocation of call i with
\* status code status ({"status": ...} when applied, {"error": ...} else).
HandlerPayload(i, status) == [answers |-> i, error |-> status # 200]

\* json.dumps({"status": response.status, "payload": response.payload})
ResponseBody(i, status) ==
    [status |-> status, payload |-> HandlerPayload(i, status)]

\* `future.set_result(payload.get("payload", {}))`: what invoke_method
\* returns for a response body.  ResultChecked raises for a status that is
\* not 200 instead.
ResultChecked(body) ==
    IF body.status = 200 THEN [st |-> "returned", result |-> body.payload]
    ELSE [st |-> "failed", result |-> body.payload]
Result(body) == [st |-> "returned", result |-> body.payload]

\* The calls a module has made.
CallsOf(c) == {i \in 1..Len(b_calls) : b_calls[i].caller = c}

InitBusVars ==
    /\ b_now = 0
    /\ b_calls = <<>>
    /\ b_pending = [c \in BusCallers |-> <<>>]
    /\ b_net = {}
    /\ b_send \in [pc : {"loop"}, attempt : {1},
                   max_retries : 0..MaxBusRetries, result : {None}]

InitBusIdle ==
    /\ b_now = 0
    /\ b_calls = <<>>
    /\ b_pending = [c \in BusCallers |-> <<>>]
    /\ b_net = {}
    /\ b_send = [pc |-> "done", attempt |-> 1, max_retries |-> 0,
                 result |-> None]

\* invoke_method of module c up to the wait: the id is made from the method
\* name and the time, the future is stored under it (over an entry with the
\* same id), the invocation is published unless the publish raises.
BusInvoke(c, target, published) ==
    LET i == Len(b_calls) + 1
        request_id == RequestId(BusMethod, b_now * TicksPerMicro)
    IN /\ b_calls' = Append(b_calls,
                        [caller |-> c, target |-> target, id |-> request_id,
                         st |-> IF published THEN "waiting"
                                ELSE "publish_failed",
                         issued |-> b_now, result |-> None, by |-> 0,
                         status |-> 0, runs |-> 0, dropped |-> 0])
       /\ b_pending' = [b_pending EXCEPT ![c] = Put(@, request_id, i)]
       /\ b_net' = IF published
                   THEN b_net \cup {[kind |-> "invocation", target |-> target,
                                     id |-> request_id, cause |-> i]}
                   ELSE b_net

\* A module other than the controller calls a method of a target.
BusOtherInvoke(c, target) ==
    /\ c # Controller
    /\ CallsOf(c) = {}
    /\ BusInvoke(c, target, TRUE)
    /\ UNCHANGED <<b_now, b_send>>
    /\ UNCHANGED <<assetVars, transportVars, dispatcherVars, controllerVars,
                   shutdownVars, registryVars, aggregatorVars, handlerVars,
                   inboundVars, driverVars>>

\* `if attempt <= self._max_retries: await asyncio.sleep(RETRY_DELAY_S)`,
\* then the next attempt or the RuntimeError after the loop.
AfterFailedAttempt(send) ==
    IF ShouldSleep(send.attempt, send.max_retries)
    THEN [send EXCEPT !.pc = "sleep", !.result = b_now]
    ELSE [send EXCEPT !.pc = "raised", !.result = None]

\* One attempt of send(): invoke_method is called.  When the publish raises,
\* the attempt has failed.
BusSendAttempt(published) ==
    /\ b_send.pc = "loop"
    /\ BusInvoke(Controller, SendTarget, published)
    /\ b_send' = IF published THEN [b_send EXCEPT !.pc = "invoking"]
                 ELSE AfterFailedAttempt(b_send)
    /\ UNCHANGED b_now
    /\ UNCHANGED <<assetVars, transportVars, dispatcherVars, controllerVars,
                   shutdownVars, registryVars, aggregatorVars, handlerVars,
                   inboundVars, driverVars>>

\* The call of the current attempt: the last call the controller made.
CurrentCall == CHOOSE i \in CallsOf(Controller) :
                   \A j \in CallsOf(Controller) : j <= i

\* invoke_method has returned or raised: send() returns the result, or
\* handles the failure.
BusSendResumes ==
    /\ b_send.pc = "invoking"
    /\ b_calls[CurrentCall].st \in {"returned", "timeout", "failed"}
    /\ b_send' = IF b_calls[CurrentCall].st = "returned"
                 THEN [b_send EXCEPT !.pc = "returned",
                                     !.result = b_calls[CurrentCall].result]
                 ELSE AfterFailedAttempt(b_send)
    /\ UNCHANGED <<b_now, b_calls, b_pending, b_net>>
    /\ UNCHANGED <<assetVars, transportVars, dispatcherVars, controllerVars,
                   shutdownVars, registryVars, aggregatorVars, handlerVars,
                   inboundVars, driverVars>>

\* asyncio.sleep(RETRY_DELAY_S) returns (two seconds later: the clock has
\* moved on) and the loop takes its next attempt.
BusSendWakes ==
    /\ b_send.pc = "sleep"
    /\ b_now > b_send.result
    /\ b_send' = [b_send EXCEPT !.pc = "loop", !.attempt = @ + 1,
                                !.result = None]
    /\ UNCHANGED <<b_now, b_calls, b_pending, b_net>>
    /\ UNCHANGED <<assetVars, transportVars, dispatcherVars, controllerVars,
                   shutdownVars, registryVars, aggregatorVars, handlerVars,
                   inboundVars, driverVars>>

\* The target's client dispatches the invocation: its method handler runs,
\* and the response is published on edge/{target}/methods/response/{id},
\* which the client of every module is subscribed to.
BusHandle(m, status) ==
    /\ m \in b_net
    /\ m.kind = "invocation"
    /\ b_calls' = [b_calls EXCEPT ![m.cause].runs = @ + 1]
    /\ b_net' = (b_net \ {m}) \cup
                  {[kind |-> "response", callee |-> m.target, id |-> m.id,
                    body |-> ResponseBody(m.cause, status),
                    cause |-> m.cause, to |-> BusCallers]}
    /\ UNCHANGED <<b_now, b_pending, b_send>>
    /\ UNCHANGED <<assetVars, transportVars, dispatcherVars, controllerVars,
                   shutdownVars, registryVars, aggregatorVars, handlerVars,
                   inboundVars, driverVars>>

\* _dispatch of module c for a response: the entry under the topic's id is
\* popped and its future, when pending, gets the payload.  (by, status and
\* dropped record which response completed a call, and how many calls had
\* been made when the response to a call came back and completed nothing.)
BusReceive(c, m) ==
    /\ m \in b_net
    /\ m.kind = "response"
    /\ c \in m.to
    /\ b_net' = (b_net \ {m}) \cup
                  (IF m.to = {c} THEN {} ELSE {[m EXCEPT !.to = @ \ {c}]})
    /\ b_pending' = [b_pending EXCEPT ![c] = Pop(@, m.id)]
    /\ IF m.id \in DOMAIN b_pending[c]
          /\ b_calls[b_pending[c][m.id]].st = "waiting"
       THEN b_calls' = [b_calls EXCEPT ![b_pending[c][m.id]] =
                           [@ EXCEPT !.st = Result(m.body).st,
                                     !.result = Result(m.body).result,
                                     !.by = m.cause,
                                     !.status = m.body.status]]
       ELSE b_calls' = IF c = b_calls[m.cause].caller
                       THEN [b_calls EXCEPT ![m.cause].dropped = Len(b_calls)]
                       ELSE b_calls
    /\ UNCHANGED <<b_now, b_send>>
    /\ UNCHANGED <<assetVars, transportVars, dispatcherVars, controllerVars,
                   shutdownVars, registryVars, aggregatorVars, handlerVars,
                   inboundVars, driverVars>>

\* wait_for times out: the entry under the call's id is popped and
\* invoke_method raises the RuntimeError.
BusTimeout(i) ==
    /\ i \in 1..Len(b_calls)
    /\ b_calls[i].st = "waiting"
    /\ b_now > b_calls[i].issued
    /\ b_calls' = [b_calls EXCEPT ![i].st = "timeout"]
    /\ b_pending' = [b_pending EXCEPT ![b_calls[i].caller] =
                        OnTimeout(@, b_calls[i].id)]
    /\ UNCHANGED <<b_now, b_net, b_send>>
    /\ UNCHANGED <<assetVars, transportVars, dispatcherVars, controllerVars,
                   shutdownVars, registryVars, aggregatorVars, handlerVars,
                   inboundVars, driverVars>>

BusTick ==
    /\ b_now < MaxClock
    /\ b_now' = b_now + 1
    /\ UNCHANGED <<b_calls, b_pending, b_net, b_send>>
    /\ UNCHANGED <<assetVars, transportVars, dispatcherVars, controllerVars,
                   shutdownVars, registryVars, aggregatorVars, handlerVars,
                   inboundVars, driverVars>>

(***************************************************************************)
(* Asset drivers: SolarInverter, Boiler, BatteryStorage                    *)
(***************************************************************************)
\* Powers are whole kW, temperatures whole degrees Celsius.  The state of
\* charge is kept as one of three levels: at or below SOC_MIN, between the
\* two limits, at or above SOC_MAX.
DriverKinds == {"SolarInverter", "Boiler", "BatteryStorage"}
SocLevels == <<"min", "mid", "max">>
SocIndex(level) == CHOOSE i \in 1..3 : SocLevels[i] = level

\* The arguments the commands are called with, and the values a twin update
\* gives max_power_kw.
PowerArgs == {-5, 0, 50, 500}
TemperatureArgs == {30, 80, 130}
MaxPowerArgs == {20, 100}

Max(a, b) == IF a >= b THEN a ELSE b

\* __init__ of the three drivers (the setpoint is _target_power_kw of the
\* inverter and _target_temp_c of the boiler; the battery has none).
NewDriver(driver_kind, initial_soc) ==
    [kind |-> driver_kind,
     state |-> "IDLE",
     battery_state |-> "IDLE",
     starting |-> FALSE,
     setpoint |-> CASE driver_kind = "SolarInverter" -> 100
                    [] driver_kind = "Boiler" -> 80
                    [] OTHER -> 0,
     power |-> 0,
     max_power_kw |-> IF driver_kind = "Boiler" THEN 200 ELSE 100,
     soc |-> initial_soc]

NoOperation == [op |-> "none", arg |-> 0, raised |-> FALSE]
Called(op, arg, ended) == [op |-> op, arg |-> arg, raised |-> ended]

InitDriverVars ==
    /\ drv \in {NewDriver(k, "mid") : k \in DriverKinds}
                 \cup {NewDriver("BatteryStorage", l) : l \in {"min", "max"}}
    /\ drv_last = NoOperation

InitDriverIdle ==
    /\ drv = NewDriver("SolarInverter", "mid")
    /\ drv_last = NoOperation

\* SolarInverter.set_output: raises outside RUNNING, else stores the target
\* clamped to [0, max_power_kw].
SetOutputRaises(d, target_kw) == d.state # "RUNNING"
SetOutput(target_kw) ==
    /\ drv.kind = "SolarInverter"
    /\ drv' = IF SetOutputRaises(drv, target_kw) THEN drv
              ELSE [drv EXCEPT !.setpoint =
                                  Max(0, Min(target_kw, drv.max_power_kw))]
    /\ drv_last' = Called("set_output", target_kw,
                          SetOutputRaises(drv, target_kw))
    /\ UNCHANGED <<assetVars, transportVars, dispatcherVars, controllerVars,
                   shutdownVars, registryVars, aggregatorVars, handlerVars,
                   inboundVars, busVars>>

\* Boiler.set_temperature: raises outside RUNNING and outside [40, 120].
SetTemperatureRaises(d, target_celsius) ==
    \/ d.state # "RUNNING"
    \/ ~(40 <= target_celsius /\ target_celsius <= 120)
SetTemperature(target_celsius) ==
    /\ drv.kind = "Boiler"
    /\ drv' = IF SetTemperatureRaises(drv, target_celsius) THEN drv
              ELSE [drv EXCEPT !.setpoint = target_celsius]
    /\ drv_last' = Called("set_temperature", target_celsius,
                          SetTemperatureRaises(drv, target_celsius))
    /\ UNCHANGED <<assetVars, transportVars, dispatcherVars, controllerVars,
                   shutdownVars, registryVars, aggregatorVars, handlerVars,
                   inboundVars, busVars>>

\* BatteryStorage.start_charging: raises unless the battery state is IDLE,
\* RUNNING or DISCHARGING, and at SOC_MAX; else the power is
\* min(power_kw, max_power_kw) and the state CHARGING.
\* (StartChargingRaisesIfFull leaves out the check of the battery state.)
StartChargingRaisesIfFull(d, power_kw) == SocIndex(d.soc) >= SocIndex("max")
StartChargingRaises(d, power_kw) ==
    \/ d.battery_state \notin {"IDLE", "RUNNING", "DISCHARGING"}
    \/ SocIndex(d.soc) >= SocIndex("max")
StartCharging(power_kw) ==
    /\ drv.kind = "BatteryStorage"
    /\ drv' = IF StartChargingRaises(drv, power_kw) THEN drv
              ELSE [drv EXCEPT !.power = Min(power_kw, drv.max_power_kw),
                               !.battery_state = "CHARGING"]
    /\ drv_last' = Called("start_charging", power_kw,
                          StartChargingRaises(drv, power_kw))
    /\ UNCHANGED <<assetVars, transportVars, dispatcherVars, controllerVars,
                   shutdownVars, registryVars, aggregatorVars, handlerVars,
                   inboundVars, busVars>>

\* BatteryStorage.start_discharging: raises unless the battery state is IDLE,
\* RUNNING or CHARGING, and at SOC_MIN; else the power is
\* -min(power_kw, max_power_kw) and the state DISCHARGING.
StartDischargingRaises(d, power_kw) ==
    \/ d.battery_state \notin {"IDLE", "RUNNING", "CHARGING"}
    \/ SocIndex(d.soc) <= SocIndex("min")
StartDischarging(power_kw) ==
    /\ drv.kind = "BatteryStorage"
    /\ drv' = IF StartDischargingRaises(drv, power_kw) THEN drv
              ELSE [drv EXCEPT !.power = 0 - Min(power_kw, drv.max_power_kw),
                               !.battery_state = "DISCHARGING"]
    /\ drv_last' = Called("start_discharging", power_kw,
                          StartDischargingRaises(drv, power_kw))
    /\ UNCHANGED <<assetVars, transportVars, dispatcherVars, controllerVars,
                   shutdownVars, registryVars, aggregatorVars, handlerVars,
                   inboundVars, busVars>>

\* BaseAsset.start up to the sleep of _on_start: ignored unless IDLE; the
\* lock stays held over the sleep.
DriverStart ==
    /\ ~drv.starting
    /\ drv' = IF drv.state # "IDLE" THEN drv
              ELSE [drv EXCEPT !.state = "STARTING", !.starting = TRUE]
    /\ drv_last' = Called("start", 0, FALSE)
    /\ UNCHANGED <<assetVars, transportVars, dispatcherVars, controllerVars,
                   shutdownVars, registryVars, aggregatorVars, handlerVars,
                   inboundVars, busVars>>

\* The sleep of _on_start is over: the hook ends (the inverter's target is
\* max_power_kw again, the battery state is RUNNING) and start() sets RUNNING.
DriverStarted ==
    /\ drv.starting
    /\ drv' = [drv EXCEPT
                 !.state = "RUNNING",
                 !.starting = FALSE,
                 !.setpoint = IF drv.kind = "SolarInverter"
                              THEN drv.max_power_kw ELSE @,
                 !.battery_state = IF drv.kind = "BatteryStorage"
                                   THEN "RUNNING" ELSE @]
    /\ drv_last' = Called("started", 0, FALSE)
    /\ UNCHANGED <<assetVars, transportVars, dispatcherVars, controllerVars,
                   shutdownVars, registryVars, aggregatorVars, handlerVars,
                   inboundVars, busVars>>

\* stop(): BatteryStorage overrides it (power 0, battery state IDLE, no
\* lock); BaseAsset.stop waits for the lock, does nothing unless RUNNING or
\* STARTING, and runs _on_stop between STOPPING and IDLE.
DriverStop ==
    /\ drv' = IF drv.kind = "BatteryStorage"
              THEN [drv EXCEPT !.power = 0, !.battery_state = "IDLE"]
              ELSE IF drv.state \notin {"RUNNING", "STARTING"} THEN drv
              ELSE [drv EXCEPT !.state = "IDLE", !.power = 0,
                               !.setpoint = IF drv.kind = "SolarInverter"
                                            THEN 0 ELSE @]
    /\ drv.kind # "BatteryStorage" => ~drv.starting
    /\ drv_last' = Called("stop", 0, FALSE)
    /\ UNCHANGED <<assetVars, transportVars, dispatcherVars, controllerVars,
                   shutdownVars, registryVars, aggregatorVars, handlerVars,
                   inboundVars, busVars>>

\* BaseAsset.fault with the driver's _on_fault (no lock is taken).
DriverFault ==
    /\ drv' = [drv EXCEPT
                 !.state = "FAULT",
                 !.power = 0,
                 !.setpoint = IF drv.kind = "SolarInverter" THEN 0 ELSE @,
                 !.battery_state = IF drv.kind = "BatteryStorage"
                                   THEN "FAULT" ELSE @]
    /\ drv_last' = Called("fault", 0, FALSE)
    /\ UNCHANGED <<assetVars, transportVars, dispatcherVars, controllerVars,
                   shutdownVars, registryVars, aggregatorVars, handlerVars,
                   inboundVars, busVars>>

\* BaseAsset.reset: from FAULT to IDLE, else nothing.
DriverReset ==
    /\ drv' = IF drv.state # "FAULT" THEN drv ELSE [drv EXCEPT !.state = "IDLE"]
    /\ drv_last' = Called("reset", 0, FALSE)
    /\ UNCHANGED <<assetVars, transportVars, dispatcherVars, controllerVars,
                   shutdownVars, registryVars, aggregatorVars, handlerVars,
                   inboundVars, busVars>>

\* handle_twin_update with a max_power_kw (inverter and battery).
SetMaxPower(value) ==
    /\ drv.kind \in {"SolarInverter", "BatteryStorage"}
    /\ drv' = [drv EXCEPT !.max_power_kw = value]
    /\ drv_last' = Called("max_power_kw", value, FALSE)
    /\ UNCHANGED <<assetVars, transportVars, dispatcherVars, controllerVars,
                   shutdownVars, registryVars, aggregatorVars, handlerVars,
                   inboundVars, busVars>>

\* BatteryStorage.tick: the state of charge moves with the sign of the
\* power while CHARGING and down while DISCHARGING (by any amount, the
\* elapsed time and the capacity being free); at the limit the power
\* becomes 0 and the battery state IDLE.
BatteryTick(level) ==
    /\ drv.kind = "BatteryStorage"
    /\ drv.battery_state \in {"CHARGING", "DISCHARGING"}
    /\ CASE drv.power = 0 -> level = drv.soc
         [] drv.battery_state = "CHARGING" /\ drv.power > 0 ->
              SocIndex(level) >= SocIndex(drv.soc)
         [] OTHER -> SocIndex(level) <= SocIndex(drv.soc)
    /\ drv' = IF \/ drv.battery_state = "CHARGING" /\ level = "max"
                 \/ drv.battery_state = "DISCHARGING" /\ level = "min"
              THEN [drv EXCEPT !.soc = level, !.power = 0,
                               !.battery_state = "IDLE"]
              ELSE [drv EXCEPT !.soc = level]
    /\ drv_last' = Called("tick", 0, FALSE)
    /\ UNCHANGED <<assetVars, transportVars, dispatcherVars, controllerVars,
                   shutdownVars, registryVars, aggregatorVars, handlerVars,
                   inboundVars, busVars>>

\* Boiler.tick (power 0 outside RUNNING, else full, partial or holding
\* power) and SolarInverter.get_telemetry (power 0 outside RUNNING or
\* without sun, else the target or what the sun allows, if less).
PowerTick(fraction) ==
    /\ drv.kind \in {"SolarInverter", "Boiler"}
    /\ drv' = [drv EXCEPT !.power =
                 IF drv.state # "RUNNING" THEN 0
                 ELSE IF drv.kind = "Boiler"
                      THEN (fraction * drv.max_power_kw) \div 50
                      ELSE Min(drv.setpoint,
                               (fraction * drv.max_power_kw) \div 50)]
    /\ drv_last' = Called("tick", 0, FALSE)
    /\ UNCHANGED <<assetVars, transportVars, dispatcherVars, controllerVars,
                   shutdownVars, registryVars, aggregatorVars, handlerVars,
                   inboundVars, busVars>>

(***************************************************************************)
(* Specifications                                                          *)
(***************************************************************************)
NextAsset ==
    \/ \E t \in Tasks : Start(t)
    \/ \E t \in Tasks : StartResume(t)
    \/ \E t \in Tasks : StartDone(t)
    \/ \E t \in Tasks : Stop(t)
    \/ \E t \in Tasks : StopResume(t)
    \/ \E t \in Tasks : StopDone(t)
    \/ \E t \in Tasks, code \in FaultCodes : Fault(t, code)
    \/ \E t \in Tasks : Reset(t)

InitAssetSpec ==
    /\ InitAsset
    /\ InitTransportIdle
    /\ InitDispatcherIdle
    /\ InitControllerIdle
    /\ InitShutdownIdle
    /\ InitRegistryIdle
    /\ InitAggregatorIdle
    /\ InitHandlerIdle
    /\ InitInboundIdle
    /\ InitBusIdle
    /\ InitDriverIdle

SpecAsset == InitAssetSpec /\ [][NextAsset]_vars

NextTransport ==
    \/ \E k \in Calls, m \in Methods : Invoke(k, m)
    \/ \E k \in Calls : PublishDone(k)
    \/ \E k \in Calls : PublishFail(k)
    \/ \E id \in TopicIds, payload \in Messages : Deliver(id, payload)
    \/ \E k \in Calls : Wake(k)
    \/ \E k \in Calls : TimerFires(k)
    \/ \E k \in Calls : TimeoutRaise(k)
    \/ \E k \in Calls : CancelCaller(k)
    \/ Tick

InitTransportSpec ==
    /\ InitAssetIdle
    /\ InitTransportVars
    /\ InitDispatcherIdle
    /\ InitControllerIdle
    /\ InitShutdownIdle
    /\ InitRegistryIdle
    /\ InitAggregatorIdle
    /\ InitHandlerIdle
    /\ InitInboundIdle
    /\ InitBusIdle
    /\ InitDriverIdle

SpecTransport == InitTransportSpec /\ [][NextTransport]_vars

NextRpc ==
    \/ OnMethod
    \/ \E k \in Calls, m \in Methods : Invoke(k, m)
    \/ \E k \in Calls : PublishDone(k)
    \/ \E m \in net : HandleInvocation(m)
    \/ \E m \in net : ReceiveResponse(m)
    \/ \E k \in Calls : Wake(k)
    \/ \E k \in Calls : TimerFires(k)
    \/ \E k \in Calls : TimeoutRaise(k)
    \/ Tick
    \/ Shutdown

SpecRpc == InitTransportSpec /\ [][NextRpc]_vars

NextCallee ==
    \/ OnMethod
    \/ \E name \in InvokedNames, body \in InvocationBodies :
          PublishInvocation(name, body)
    \/ \E m \in net : HandleInvocation(m)

SpecCallee == InitTransportSpec /\ [][NextCallee]_vars

NextDispatcher ==
    \/ SendInvoke
    \/ SendSuccess
    \/ SendFailure
    \/ SendSlept
    \/ SendCancelled

InitDispatcherSpec ==
    /\ InitAssetIdle
    /\ InitTransportIdle
    /\ InitDispatcherVars
    /\ InitControllerIdle
    /\ InitShutdownIdle
    /\ InitRegistryIdle
    /\ InitAggregatorIdle
    /\ InitHandlerIdle
    /\ InitInboundIdle
    /\ InitBusIdle
    /\ InitDriverIdle

SpecDispatcher == InitDispatcherSpec /\ [][NextDispatcher]_vars

BalancingStep ==
    \/ \E faulted \in 0..MaxFaulted, balance \in Balances :
          Compute(faulted, balance)
    \/ BodyRaises
    \/ GetBattery
    \/ ApplyAlert
    \/ SendReturns
    \/ SendRaises
    \/ BalancingWake

OtherLoopStep(l) == LoopStep(l) \/ LoopRaises(l) \/ LoopWake(l)

NextController ==
    \/ \E faulted \in 0..MaxFaulted, balance \in Balances :
          Compute(faulted, balance)
    \/ BodyRaises
    \/ GetBattery
    \/ ApplyAlert
    \/ SendReturns
    \/ SendRaises
    \/ BalancingWake
    \/ CancelBalancing
    \/ \E l \in OtherLoops : LoopStep(l)
    \/ \E l \in OtherLoops : LoopRaises(l)
    \/ \E l \in OtherLoops : LoopWake(l)
    \/ \E l \in OtherLoops : CancelLoop(l)

InitControllerSpec ==
    /\ InitAssetIdle
    /\ InitTransportIdle
    /\ InitDispatcherIdle
    /\ InitControllerVars
    /\ InitShutdownIdle
    /\ InitRegistryIdle
    /\ InitAggregatorIdle
    /\ InitHandlerIdle
    /\ InitInboundIdle
    /\ InitBusIdle
    /\ InitDriverIdle

SpecController == InitControllerSpec /\ [][NextController]_vars

\* The event loop resumes every task that can run: an awaited call returns
\* or raises, a sleep ends.  Cancellation may come at any time, or never.
SpecControllerLive ==
    /\ InitControllerSpec
    /\ [][NextController]_vars
    /\ WF_vars(BalancingStep)
    /\ \A l \in OtherLoops : WF_vars(OtherLoopStep(l))

NextShutdown ==
    \/ \E balance \in Balances :
          Running("balancing_loop") /\ Compute(0, balance)
    \/ Running("balancing_loop") /\ BodyRaises
    \/ Running("balancing_loop") /\ GetBattery
    \/ Running("balancing_loop") /\ ApplyAlert
    \/ Running("balancing_loop") /\ SendReturns
    \/ Running("balancing_loop") /\ SendRaises
    \/ Running("balancing_loop") /\ AttemptFails
    \/ Running("balancing_loop") /\ RetryWake
    \/ Running("balancing_loop") /\ BalancingWake
    \/ \E l \in OtherLoops : Running(l) /\ LoopStep(l)
    \/ \E l \in OtherLoops : Running(l) /\ LoopRaises(l)
    \/ \E l \in OtherLoops : Running(l) /\ LoopWake(l)
    \/ \E proc \in Procs : ShutdownSignal(proc)
    \/ \E l \in Loops : DeliverCancel(l)

InitShutdownSpec ==
    /\ InitAssetIdle
    /\ InitTransportIdle
    /\ InitDispatcherIdle
    /\ InitControllerVars
    /\ InitShutdownVars
    /\ InitRegistryIdle
    /\ InitAggregatorIdle
    /\ InitHandlerIdle
    /\ InitInboundIdle
    /\ InitBusIdle
    /\ InitDriverIdle

\* cancel() schedules the task: the event loop runs it, and the
\* CancelledError is raised in it, whatever the other tasks do.
SpecShutdown ==
    /\ InitShutdownSpec
    /\ [][NextShutdown]_vars
    /\ \A l \in Loops : WF_vars(DeliverCancel(l))

\* The registry's calls step by step, as tasks that could be interleaved at
\* every step: the call begins (update() builds its snapshot), takes the
\* lock, reads or writes the map, releases the lock and returns.
RegistryCall(t, rcall) ==
    /\ r_call[t].at = "idle"
    /\ r_call' = [r_call EXCEPT ![t] =
                    IF rcall.op = "update"
                    THEN [at |-> "called", call |-> rcall,
                          snapshot |-> Snapshot(rcall.data, wall)]
                    ELSE [at |-> "called", call |-> rcall]]
    /\ r_result' = [r_result EXCEPT ![t] = NoResult]
    /\ r_during' = [r_during EXCEPT ![t] = {_assets}]
    /\ UNCHANGED <<_assets, wall, accepted, replaced, r_outcome, reg_lock>>
    /\ UNCHANGED <<assetVars, transportVars, dispatcherVars, controllerVars,
                   shutdownVars, aggregatorVars, handlerVars, inboundVars,
                   busVars, driverVars>>

RegistryAcquire(t) ==
    /\ r_call[t].at = "called"
    /\ reg_lock = "free"
    /\ reg_lock' = t
    /\ r_call' = [r_call EXCEPT ![t].at = "locked"]
    /\ UNCHANGED <<_assets, wall, accepted, replaced, r_outcome, r_result,
                   r_during>>
    /\ UNCHANGED <<assetVars, transportVars, dispatcherVars, controllerVars,
                   shutdownVars, aggregatorVars, handlerVars, inboundVars,
                   busVars, driverVars>>

RegistryAccess(t) ==
    /\ r_call[t].at = "locked"
    /\ r_call' = [r_call EXCEPT ![t].at = "accessed"]
    /\ IF r_call[t].call.op = "update"
       THEN LET asset_id == r_call[t].snapshot.asset_id
            IN /\ _assets' = Put(_assets, asset_id, r_call[t].snapshot)
               /\ accepted' = accepted \cup {asset_id}
               /\ replaced' = replaced \cup ({asset_id} \cap DOMAIN _assets)
               /\ r_outcome' = "stored"
               /\ r_during' = [u \in RegistryTasks |->
                                 IF r_call[u].at = "idle" THEN r_during[u]
                                 ELSE r_during[u] \cup {_assets'}]
               /\ UNCHANGED r_result
       ELSE /\ r_result' = [r_result EXCEPT ![t] =
                              ReadResult(r_call[t].call, _assets)]
            /\ UNCHANGED <<_assets, accepted, replaced, r_outcome, r_during>>
    /\ UNCHANGED <<wall, reg_lock>>
    /\ UNCHANGED <<assetVars, transportVars, dispatcherVars, controllerVars,
                   shutdownVars, aggregatorVars, handlerVars, inboundVars,
                   busVars, driverVars>>

RegistryReturn(t) ==
    /\ r_call[t].at = "accessed"
    /\ reg_lock' = "free"
    /\ r_call' = [r_call EXCEPT ![t] = NotInCall]
    /\ r_during' = [r_during EXCEPT ![t] = {}]
    /\ UNCHANGED <<_assets, wall, accepted, replaced, r_outcome, r_result>>
    /\ UNCHANGED <<assetVars, transportVars, dispatcherVars, controllerVars,
                   shutdownVars, aggregatorVars, handlerVars, inboundVars,
                   busVars, driverVars>>

NextRegistryCalls ==
    \E t \in RegistryTasks :
        \/ \E rcall \in RegistryCalls(t) : RegistryCall(t, rcall)
        \/ RegistryAcquire(t)
        \/ RegistryAccess(t)
        \/ RegistryReturn(t)

NextRegistry ==
    \/ \E data \in TelemetryMessages : Update(data)
    \/ WallTick

InitRegistrySpec ==
    /\ InitAssetIdle
    /\ InitTransportIdle
    /\ InitDispatcherIdle
    /\ InitControllerIdle
    /\ InitShutdownIdle
    /\ InitRegistryVars
    /\ InitAggregatorIdle
    /\ InitHandlerIdle
    /\ InitInboundIdle
    /\ InitBusIdle
    /\ InitDriverIdle

SpecRegistry == InitRegistrySpec /\ [][NextRegistry]_vars

SpecRegistryCalls == InitRegistrySpec /\ [][NextRegistryCalls]_vars

NextAggregator == AggregatorCompute

InitAggregatorSpec ==
    /\ InitAssetIdle
    /\ InitTransportIdle
    /\ InitDispatcherIdle
    /\ InitControllerIdle
    /\ InitShutdownIdle
    /\ InitRegistryIdle
    /\ InitAggregatorVars
    /\ InitHandlerIdle
    /\ InitInboundIdle
    /\ InitBusIdle
    /\ InitDriverIdle

SpecAggregator == InitAggregatorSpec /\ [][NextAggregator]_vars

NextHandlers ==
    \/ \E req \in HandlerRequests : HandlerCall(req)
    \/ HandlerAssetFaults

InitHandlersSpec ==
    /\ InitAssetIdle
    /\ InitTransportIdle
    /\ InitDispatcherIdle
    /\ InitControllerIdle
    /\ InitShutdownIdle
    /\ InitRegistryIdle
    /\ InitAggregatorIdle
    /\ InitHandlerVars
    /\ InitInboundIdle
    /\ InitBusIdle
    /\ InitDriverIdle

SpecHandlers == InitHandlersSpec /\ [][NextHandlers]_vars

NextInbound ==
    \/ \E class \in {"method", "data"} : InboundRegister(class)
    \/ \E id \in InboundIds : InboundInvoke(id)
    \/ \E m \in InboundMessages : InboundDeliver(m)

InitInboundSpec ==
    /\ InitAssetIdle
    /\ InitTransportIdle
    /\ InitDispatcherIdle
    /\ InitControllerIdle
    /\ InitShutdownIdle
    /\ InitRegistryIdle
    /\ InitAggregatorIdle
    /\ InitHandlerIdle
    /\ InitInboundVars
    /\ InitBusIdle
    /\ InitDriverIdle

SpecInbound == InitInboundSpec /\ [][NextInbound]_vars

\* One send() of the controller, the target's client, the broker, the clock.
NextSend ==
    \/ \E published \in BOOLEAN : BusSendAttempt(published)
    \/ BusSendResumes
    \/ BusSendWakes
    \/ \E m \in b_net, status \in Statuses : BusHandle(m, status)
    \/ \E c \in BusCallers, m \in b_net : BusReceive(c, m)
    \/ \E i \in 1..Len(b_calls) : BusTimeout(i)
    \/ BusTick

\* The same, next to a call of another module.
NextBus ==
    \/ \E c \in BusCallers, target \in BusTargets : BusOtherInvoke(c, target)
    \/ NextSend

InitBusSpec ==
    /\ InitAssetIdle
    /\ InitTransportIdle
    /\ InitDispatcherIdle
    /\ InitControllerIdle
    /\ InitShutdownIdle
    /\ InitRegistryIdle
    /\ InitAggregatorIdle
    /\ InitHandlerIdle
    /\ InitInboundIdle
    /\ InitBusVars
    /\ InitDriverIdle

SpecSend == InitBusSpec /\ [][NextSend]_vars
SpecBus == InitBusSpec /\ [][NextBus]_vars

NextDrivers ==
    \/ \E target_kw \in PowerArgs : SetOutput(target_kw)
    \/ \E target_celsius \in TemperatureArgs : SetTemperature(target_celsius)
    \/ \E power_kw \in PowerArgs : StartCharging(power_kw)
    \/ \E power_kw \in PowerArgs : StartDischarging(power_kw)
    \/ DriverStart
    \/ DriverStarted
    \/ DriverStop
    \/ DriverFault
    \/ DriverReset
    \/ \E value \in MaxPowerArgs : SetMaxPower(value)
    \/ \E level \in {"min", "mid", "max"} : BatteryTick(level)
    \/ \E fraction \in {0, 1, 25, 50} : PowerTick(fraction)

InitDriversSpec ==
    /\ InitAssetIdle
    /\ InitTransportIdle
    /\ InitDispatcherIdle
    /\ InitControllerIdle
    /\ InitShutdownIdle
    /\ InitRegistryIdle
    /\ InitAggregatorIdle
    /\ InitHandlerIdle
    /\ InitInboundIdle
    /\ InitBusIdle
    /\ InitDriverVars

SpecDrivers == InitDriversSpec /\ [][NextDrivers]_vars

(***************************************************************************)
(* Properties                                                              *)
(***************************************************************************)

\* ---- Asset state machine ----

ValidEdges ==
    {<<"IDLE", "STARTING">>, <<"STARTING", "RUNNING">>, <<"RUNNING", "STOPPING">>,
     <<"STARTING", "STOPPING">>, <<"STOPPING", "IDLE">>}

\* C1: as long as only start() and stop() have been called, every change of
\* the instance's observable state is an edge of the lifecycle graph.
C1_StartStopWalk ==
    [][(~fault_used') => (state' # state => <<state, state'>> \in ValidEdges)]_vars

\* A start() or stop() is between its first state write and the end of its hook.
InTransition == \E t \in Tasks : pc[t] \in {"on_start", "on_stop"}

\* C2: fault() takes effect only while no start()/stop() transition is in
\* progress, and a FAULT state is left only by reset(), never by the
\* RUNNING or IDLE write of a start()/stop() that was in progress.
C2_FaultSerialized ==
    [][/\ (\E t \in Tasks, code \in FaultCodes : Fault(t, code)) => ~InTransition
       /\ (_state = "FAULT" /\ _state' # "FAULT") => \E t \in Tasks : Reset(t)]_vars

\* C9: fault(code) directly followed by reset() leaves the observable state
\* IDLE and fault_code null, for every driver.
C9_FaultThenReset ==
    last_ops = <<"fault", "reset">> => (state = "IDLE" /\ fault_code = None)

\* C10: fault_code is non-null exactly when the driver's state is FAULT.
C10_FaultCodeIffFault == (fault_code # None) <=> (state = "FAULT")

\* ---- Transport ----

\* The call is suspended and no response has completed it yet.
Outstanding(k) == call[k].st \in {"publishing", "waiting"} /\ fut[k].st = "pending"

\* C3: for an outstanding call with id c, a response with another id leaves
\* the call pending and its entry in place, a response with id c completes
\* it with the response's payload, and a call is completed at most once and
\* keeps its result.
C3_ResponseMatching ==
    [][/\ \A id \in TopicIds, payload \in Messages :
            Deliver(id, payload) =>
              \A k \in Calls :
                Outstanding(k) =>
                  IF id = call[k].id
                  THEN fut'[k] = [st |-> "result",
                                  result |-> Get(payload, "payload", EmptyDict),
                                  sets |-> 1]
                  ELSE /\ fut'[k] = fut[k]
                       /\ call'[k] = call[k]
                       /\ call[k].id \in DOMAIN _pending =>
                            /\ call[k].id \in DOMAIN _pending'
                            /\ _pending'[call[k].id] = _pending[call[k].id]
       /\ \A k \in Calls : fut[k].st = "result" => fut'[k] = fut[k]
       /\ \A k \in Calls : call[k].st = "returned" =>
            /\ call'[k] = call[k]
            /\ call[k].result = fut[k].result]_vars

\* C4: a call that waits with no response leaves the wait only by its
\* deadline (or by cancellation of its caller); the deadline makes it fail
\* with the timeout error and removes the entry of its id; a response that
\* carries an id without entry, or the id of a call that has timed out,
\* raises nothing, resolves nothing and leaves the pending map as it is.
C4_TimeoutAndLateResponse ==
    [][/\ \A k \in Calls :
            (call[k].st = "waiting" /\ fut[k].st = "pending" /\ call'[k] # call[k]) =>
              \/ call'[k].st = "cancelled"
              \/ call'[k].st = "timing_out" /\ now >= call[k].deadline
       /\ \A k \in Calls :
            (call[k].st = "timing_out" /\ call'[k] # call[k]) =>
              /\ call'[k].st = "timeout"
              /\ call[k].id \notin DOMAIN _pending'
       /\ \A id \in TopicIds, payload \in Messages :
            (/\ \/ id \notin DOMAIN _pending
                \/ \E k \in Calls : call[k].st = "timeout" /\ call[k].id = id
             /\ Deliver(id, payload)) =>
              /\ _pending' = _pending
              /\ fut' = fut
              /\ call' = call
              /\ ~raised']_vars

\* A call has timed out and a response carrying its id was delivered later.
C4_Witness == late /\ \E k \in Calls : call[k].st = "timeout"

\* The call has been registered and has not returned or failed yet.
Suspended(k) == call[k].st \in {"publishing", "waiting", "timing_out"}

\* C5: calls that are outstanding at the same time have different ids.
C5_FreshIds ==
    \A j, k \in Calls : (j # k /\ Suspended(j) /\ Suspended(k)) => call[j].id # call[k].id

\* C6: the pending map holds an entry for every suspended call that no
\* response has completed, and no entry of a call that has returned or failed.
C6_PendingIsSuspended ==
    /\ \A k \in Calls : Outstanding(k) => call[k].id \in DOMAIN _pending
    /\ \A id \in DOMAIN _pending : Suspended(_pending[id])

\* ---- Dispatcher ----

\* The first invocation that succeeds is the n-th.
FirstSuccessAt(n) ==
    /\ transport[n] = "ok"
    /\ \A i \in 1..(n - 1) : transport[i] # "ok"

Finished == d_pc = "done" /\ outcome.kind # "cancelled"

\* C7: when the first success is the N-th invocation, N <= max_retries + 1,
\* send() never invokes the client more than N times and, unless it is
\* cancelled, returns the N-th invocation's payload after exactly N
\* invocations (so N = 1 means one invocation and no retry delay).
C7_ReturnsFirstSuccess ==
    \A n \in 1..(_max_retries + 1) :
        FirstSuccessAt(n) =>
          /\ Len(invoked) <= n
          /\ slept <= n - 1
          /\ Finished =>
               /\ outcome = [kind |-> "returned", payload |-> ResponsePayload(n)]
               /\ Len(invoked) = n

\* send() returned on the last attempt it is allowed, after retries.
C7_Witness ==
    /\ d_pc = "done"
    /\ outcome.kind = "returned"
    /\ _max_retries = MaxRetriesBound
    /\ Len(invoked) = _max_retries + 1

AllFail == \A i \in 1..(_max_retries + 1) : transport[i] # "ok"

\* C8: when every invocation fails, send() invokes the client exactly
\* max_retries + 1 times, always with its own arguments, and then raises the
\* error that names the module, the method, max_retries + 1 attempts and the
\* failure of the last invocation.
C8_CommandFailedAfterRetries ==
    AllFail =>
      /\ Len(invoked) <= _max_retries + 1
      /\ \A i \in 1..Len(invoked) : invoked[i] = request
      /\ Finished =>
           /\ Len(invoked) = _max_retries + 1
           /\ outcome = [kind |-> "raised",
                         module_id |-> request.module_id,
                         method_name |-> request.method_name,
                         attempts |-> _max_retries + 1,
                         cause |-> {Exc(_max_retries + 1)}]

\* send() has raised after a timeout followed by another error.
C8_Witness ==
    /\ d_pc = "done"
    /\ outcome.kind = "raised"
    /\ _max_retries >= 1
    /\ transport[1] = "timeout"
    /\ transport[2] = "error"

\* ---- Asset state machine: locking, hooks, no-ops ----

\* Another task's start() or stop() is between its first state write and
\* the end of its hook.
OtherInTransition(t) == \E u \in Tasks \ {t} : pc[u] \in {"on_start", "on_stop"}

\* A step of start() or stop() in which the call has the lock (or takes none)
\* and reads the state.
StartEnters(t) == (Start(t) /\ LockFree) \/ StartResume(t)
StopEnters(t) == (Stop(t) /\ (kind = "BatteryStorage" \/ LockFree)) \/ StopResume(t)

\* C11: at most one start()/stop() transition is in progress at any time, and
\* while one is in progress no step of another start() or stop() call
\* changes the state, for every driver.
C11_OneTransitionAtATime ==
    [][/\ Cardinality({t \in Tasks : pc'[t] \in {"on_start", "on_stop"}}) <= 1
       /\ \A t \in Tasks :
            (/\ Start(t) \/ StartResume(t) \/ Stop(t) \/ StopResume(t)
             /\ OtherInTransition(t)) =>
              /\ state' = state
              /\ _state' = _state]_vars

\* C12: start() entered in IDLE sets STARTING and invokes the on-start hook
\* once in that state, and RUNNING is set only when that hook has completed;
\* stop() entered in RUNNING sets STOPPING, the on-stop hook is invoked once
\* in that state, and IDLE is set only when that hook has completed.
C12_HooksInsideTransitions ==
    [][\A t \in Tasks :
         /\ (StartEnters(t) /\ state = "IDLE" /\ _state = "IDLE") =>
              /\ state' = "STARTING"
              /\ hooked' = <<HookCall("on_start", None)>>
              /\ pc'[t] = "on_start"
         /\ (hooked' = <<HookCall("on_start", None)>>) => state' = "STARTING"
         /\ (pc[t] = "on_start" /\ pc'[t] # "on_start") =>
              /\ StartDone(t)
              /\ hooked' = <<>>
         /\ (state # "RUNNING" /\ state' = "RUNNING") => \E u \in Tasks : StartDone(u)
         /\ (StopEnters(t) /\ state = "RUNNING") =>
              /\ state' = "STOPPING"
              /\ pc'[t] = "on_stop"
              /\ hooked' = <<>>
         /\ (hooked' = <<HookCall("on_stop", None)>>) =>
              /\ state = "STOPPING"
              /\ state' = "IDLE"
         /\ (state = "STOPPING" /\ state' # "STOPPING") =>
              /\ state' = "IDLE"
              /\ hooked' = <<HookCall("on_stop", None)>>]_vars

\* The call returned in this step and left everything observable as it was.
NoOp(t) ==
    /\ pc'[t] = "idle"
    /\ state' = state
    /\ fault_code' = fault_code
    /\ hooked' = <<>>

\* C13: start() entered in STARTING, RUNNING or STOPPING, stop() entered in
\* IDLE or STOPPING and reset() called outside FAULT return at once, change
\* neither state nor fault_code and invoke no hook.
C13_NoOpCalls ==
    [][\A t \in Tasks :
         /\ (StartEnters(t) /\ state \in {"STARTING", "RUNNING", "STOPPING"}) => NoOp(t)
         /\ (StopEnters(t) /\ state \in {"IDLE", "STOPPING"}) => NoOp(t)
         /\ (Reset(t) /\ state # "FAULT") => NoOp(t)]_vars

\* C14: fault(code), in whatever state it is called, ends with state FAULT
\* and fault_code = code and has invoked the on-fault hook once, with code.
C14_FaultRecordsCode ==
    [][\A t \in Tasks, code \in FaultCodes :
         Fault(t, code) =>
           /\ state' = "FAULT"
           /\ fault_code' = code
           /\ hooked' = <<HookCall("on_fault", code)>>]_vars

\* fault() was called while a start() was in progress (state STARTING or,
\* after an earlier fault, FAULT) and has taken effect.
C14_Witness ==
    /\ last_ops[2] = "fault"
    /\ state = "FAULT"
    /\ fault_code \in FaultCodes
    /\ \E t \in Tasks : pc[t] = "on_start"

\* ---- RPC round trip ----

\* The request an invocation message stands for, and the response the
\* handler gives to it.
RequestOf(m) ==
    DirectMethodRequest(m.body._request_id, m.topic[4], WithoutId(m.body))
ResponseTo(m) == ResponseMessage(HandleMethod(RequestOf(m)))

InvocationOf(k) ==
    [topic |-> MethodTopic(CalleeId, call[k].id[1]),
     body |-> Outgoing(CallPayload(k), call[k].id)]

\* The response m is the callee's answer to the invocation of call k.
Answers(m, k) ==
    /\ call[k].st # "new"
    /\ BagIn(RequestOf(InvocationOf(k)), handled)
    /\ m = ResponseTo(InvocationOf(k))

\* C16 (safety part): a response to a call's invocation that reaches the
\* caller while the call is outstanding completes the call with that
\* response's payload; a call returns only the payload of the handler's
\* response to its own invocation; a call leaves its wait otherwise only by
\* its deadline, failing with the timeout error (or by shutdown).
C16_CallReturnsOwnResponse ==
    [][/\ \A m \in net, k \in Calls :
            (ReceiveResponse(m) /\ Answers(m, k) /\ Outstanding(k)) =>
              /\ fut'[k].st = "result"
              /\ fut'[k].result = m.body.payload
       /\ \A k \in Calls :
            (call[k].st # "returned" /\ call'[k].st = "returned") =>
              /\ BagIn(RequestOf(InvocationOf(k)), handled)
              /\ call'[k].result = ResponseTo(InvocationOf(k)).body.payload
       /\ \A k \in Calls :
            (Suspended(k) /\ call'[k].st # call[k].st) =>
              \/ call[k].st = "publishing" /\ call'[k].st \in {"waiting", "returned"}
              \/ call[k].st = "waiting" /\ call'[k].st = "returned"
              \/ /\ call[k].st = "waiting" /\ call'[k].st = "timing_out"
                 /\ now >= call[k].deadline
              \/ call[k].st = "timing_out" /\ call'[k].st = "timeout"
              \/ call'[k].st = "cancelled" /\ Shutdown]_vars

\* C17: after shutdown no call is still suspended, no future is still
\* pending and the pending map is empty.
C17_ShutdownClearsPending ==
    _listen_task = "cancelled" =>
        /\ \A k \in Calls : ~Suspended(k)
        /\ \A k \in Calls : fut[k].st # "pending"
        /\ DOMAIN _pending = {}

(***************************************************************************)
(* Controller: the balancing loop and the periodic loops                   *)
(***************************************************************************)
\* The balancing cycle went through its alerts and reached the sleep.
CycleCompleted == b_pc = "sleep" /\ alert_i > 0

\* C18: when the dispatcher fails with CommandFailed for one alert of a
\* cycle, the for loop goes on with the next alert, so that the cycle ends
\* with every alert handled; and from its sleep the loop goes to the next
\* cycle unless it is cancelled.
C18_CommandFailedSkipsAlert ==
    [][/\ SendRaises =>
            /\ b_pc' = "alerts"
            /\ alert_i' = alert_i + 1
            /\ telemetry' = telemetry
       /\ (CycleCompleted' /\ failed' # {}) =>
            alert_i' = Len(telemetry'.alerts) + 1
       /\ (b_pc = "sleep" /\ b_pc' # "sleep") =>
            b_pc' \in {"compute", "cancelled"}]_vars

\* A cycle in which the command of one alert failed and the command of a
\* later alert was dispatched all the same has completed.
C18_Witness ==
    /\ CycleCompleted
    /\ \E i \in failed : i < Len(telemetry.alerts)
    /\ Len(dispatched) = 2


\* C19: in every periodic loop a failure raised in the body of a cycle is
\* caught at the loop boundary and the loop goes to its sleep; a loop leaves
\* its body and its sleep only for one another or by cancellation; and a
\* loop that is never cancelled begins a cycle again and again.
C19_LoopsSurviveFailures ==
    /\ [][/\ BodyRaises => LoopAt("balancing_loop")' = "sleep"
          /\ \A l \in OtherLoops : LoopRaises(l) => LoopAt(l)' = "sleep"
          /\ \A l \in Loops :
               /\ LoopAt(l)' \in {"body", "sleep", "cancelled"}
               /\ LoopAt(l)' = "cancelled" =>
                    \/ LoopAt(l) = "cancelled"
                    \/ l = "balancing_loop" /\ CancelBalancing
                    \/ l \in OtherLoops /\ CancelLoop(l)]_vars
    /\ \A l \in Loops :
         \/ <>(LoopAt(l) = "cancelled")
         \/ []<>(LoopAt(l) = "sleep") /\ []<>(LoopAt(l) = "body")

\* Every loop has caught a failure of its body and is asleep until its
\* next cycle.
C19_Witness ==
    /\ b_pc = "sleep" /\ alert_i = 0
    /\ \A l \in OtherLoops : l_pc[l].at = "sleep" /\ l_pc[l].step > 0


\* The alerts of the cycle whose handling has begun, and those among them
\* that ask for a command.
AlertsBegun ==
    SubSeq(telemetry.alerts, 1,
           IF alert_i = 0 THEN 0
           ELSE IF b_pc = "send" THEN alert_i ELSE alert_i - 1)
IsGridAlert(code) == code \in {"GRID_SURPLUS", "GRID_DEFICIT"}
GridAlertsBegun == SelectSeq(AlertsBegun, IsGridAlert)

\* C20: the commands a balancing cycle has given to the dispatcher are, in
\* the order of the alerts handled so far, one start_charging to the battery
\* module for each GRID_SURPLUS and one start_discharging to it for each
\* GRID_DEFICIT, none for an ASSET_FAULT; each with
\* power_kw = min(|grid_balance_kw|, 50), which is at most 50; at the end of
\* the cycle all its alerts have been handled so.
C20_CommandsPerAlert ==
    /\ b_pc \in {"compute", "get_battery", "alerts", "send", "sleep"} =>
         /\ Len(dispatched) = Len(GridAlertsBegun)
         /\ \A i \in 1..Len(dispatched) :
              /\ dispatched[i].module_id = "battery-module"
              /\ dispatched[i].method_name =
                   (IF GridAlertsBegun[i] = "GRID_SURPLUS"
                    THEN "start_charging" ELSE "start_discharging")
              /\ dispatched[i].payload.power_kw =
                   (IF Abs(telemetry.grid_balance_kw) <= 50
                    THEN Abs(telemetry.grid_balance_kw) ELSE 50)
    /\ \A i \in 1..Len(dispatched) : dispatched[i].payload.power_kw <= 50
    /\ CycleCompleted => AlertsBegun = telemetry.alerts

\* A cycle with an ASSET_FAULT alert and a surplus above the cap has
\* completed with one start_charging command at the cap.
C20_Witness ==
    /\ CycleCompleted
    /\ telemetry.grid_balance_kw > SafetyCap
    /\ \E i \in 1..Len(telemetry.alerts) : telemetry.alerts[i] = "ASSET_FAULT"
    /\ dispatched = <<Command("battery-module", "start_charging", SafetyCap)>>



\* ---- Shutdown ----
\* Where a loop stands: its position in the code.
Position(l) == IF l = "balancing_loop" THEN <<b_pc, alert_i>> ELSE <<l_pc[l]>>

\* cancel() has been called on the task of the loop.
CancelCalled(l) == l \in must_cancel \/ cancelled_at[l] # "none"

\* C21: once main has called cancel() on a loop after the stop signal, the
\* loop takes no step but the one that ends it (so it dispatches no command
\* and publishes nothing); the CancelledError ends it wherever it is
\* suspended, in its sleep, in an attempt of send() or in a retry delay; and
\* every loop cancel() was called on does stop.
C21_LoopsStopOnShutdown ==
    /\ [][\A l \in Loops :
            /\ CancelCalled(l) =>
                 /\ Position(l)' = Position(l) \/ LoopAt(l)' = "cancelled"
                 /\ l = "balancing_loop" => dispatched' = dispatched
            /\ DeliverCancel(l) => LoopAt(l)' = "cancelled"
            /\ \A proc \in Procs :
                 (ShutdownSignal(proc) /\ ProcOf(l) = proc) => CancelCalled(l)']_vars
    /\ \A l \in Loops : (l \in must_cancel) ~> (LoopAt(l) = "cancelled")

\* The balancing loop was stopped in a retry delay of send(), the
\* cloud-reporting loop in its sleep and a telemetry loop in its body.
C21_Witness ==
    /\ \A l \in Loops : LoopAt(l) = "cancelled"
    /\ cancelled_at["balancing_loop"] = "retry_delay"
    /\ cancelled_at["cloud_reporting_loop"] = "sleep"
    /\ cancelled_at["telemetry_loop"] = "body"


\* ---- Registry ----

\* C22: the registry holds one snapshot per asset_id; an update() that stores
\* a snapshot for an asset_id sets every field of it from the new message (and
\* the time of the call, when the message has no timestamp), whatever was
\* stored before, and leaves the snapshots of all other asset_ids as they
\* were; count() is the number of distinct asset_ids stored so far.
C22_UpdateReplacesWholeSnapshot ==
    /\ [][\A data \in TelemetryMessages :
            (Update(data) /\ Stores(data)) =>
                LET asset_id == data.asset_id
                    stored == _assets'[asset_id]
                IN /\ DOMAIN _assets' = DOMAIN _assets \cup {asset_id}
                   /\ DOMAIN stored = {"asset_id", "asset_type", "state",
                                       "power_kw", "last_seen", "raw"}
                   /\ stored.asset_id = asset_id
                   /\ stored.asset_type =
                        (IF "asset_type" \in DOMAIN data
                         THEN data.asset_type ELSE "unknown")
                   /\ stored.state =
                        (IF "state" \in DOMAIN data
                         THEN data.state ELSE "UNKNOWN")
                   /\ stored.last_seen =
                        (IF "timestamp" \in DOMAIN data
                         THEN data.timestamp ELSE wall)
                   /\ stored.power_kw = ExtractPowerKw(data)
                   /\ stored.raw = data
                   /\ \A other \in DOMAIN _assets \ {asset_id} :
                        _assets'[other] = _assets[other]]_vars
    /\ [](/\ Count = Cardinality(accepted)
          /\ \A asset_id \in DOMAIN _assets :
                _assets[asset_id].asset_id = asset_id)

\* Snapshots of three assets are stored, the one of solar-01 has been
\* overwritten, by a message of another asset type without timestamp, after
\* one with a timestamp.
C22_Witness ==
    /\ Count = 3
    /\ "solar-01" \in replaced
    /\ _assets["solar-01"].asset_type = "wind_turbine"
    /\ _assets["solar-01"].last_seen = 2
    /\ _assets["battery-01"].last_seen = SentAt

\* C23: update() with a message whose asset_id is absent or empty leaves the
\* registry map and count() as they were and returns without raising.
C23_MissingAssetIdStoresNothing ==
    [][\A data \in TelemetryMessages :
          (Update(data) /\ ("asset_id" \notin DOMAIN data \/ data.asset_id = ""))
              => /\ _assets' = _assets
                 /\ Count' = Count
                 /\ r_outcome' = "dropped"]_vars

\* A message without asset_id has just been dropped by a registry that holds
\* two snapshots.
C23_Witness ==
    /\ r_outcome = "dropped"
    /\ Count = 2

\* C24: update() applied again with the telemetry message the stored snapshot
\* of its asset_id was built from leaves the registry map (every field of
\* every snapshot, last_seen included) and count() as they were.
C24_UpdateIdempotent ==
    [][\A data \in TelemetryMessages :
          (/\ Update(data)
           /\ Stores(data)
           /\ data.asset_id \in DOMAIN _assets
           /\ _assets[data.asset_id].raw = data)
              => /\ _assets' = _assets
                 /\ Count' = Count]_vars

ReadOf(rcall, res, m) ==
    CASE rcall.op = "get_all" ->
           res.kind \in {"list", "view"} /\ Items(res) = Values(m)
      [] rcall.op = "get" ->
           IF rcall.asset_id \in DOMAIN m
           THEN res.kind = "snapshot" /\ res.value = m[rcall.asset_id]
           ELSE res.kind = "None"
      [] rcall.op = "count" ->
           res.kind = "int" /\ res.value = Cardinality(DOMAIN m)
      [] OTHER -> FALSE

\* C26: with update(), get_all(), get() and count() interleaved at every
\* step, what a read returns is drawn from one content the map had between
\* the read's start and its end, and the list get_all() has returned keeps
\* its snapshots whatever update() stores afterwards.
C26_ConsistentReads ==
    /\ [][\A t \in RegistryTasks :
            (RegistryReturn(t) /\ r_call[t].call.op # "update") =>
                \E m \in r_during[t] :
                    ReadOf(r_call[t].call, r_result'[t], m)]_vars
    /\ [][\A t \in RegistryTasks :
            (/\ r_result[t].kind \in {"list", "view"}
             /\ r_call'[t].at = "idle")
                => Items(r_result[t])' = Items(r_result[t])]_vars

\* One loop holds a list get_all() returned before the map was changed to
\* its present content, while the other loop is returning from a read during
\* which an update was stored.
C26_Witness ==
    /\ r_call["balancing_loop"].at = "idle"
    /\ r_result["balancing_loop"].kind = "list"
    /\ Cardinality(r_result["balancing_loop"].items) = 1
    /\ r_result["balancing_loop"].items # Values(_assets)
    /\ Count = 2
    /\ r_call["cloud_reporting_loop"].at = "accessed"
    /\ r_call["cloud_reporting_loop"].call.op = "get_all"
    /\ Cardinality(r_during["cloud_reporting_loop"]) = 2
\* ---- Aggregator ----

Computed == computed # NotComputed

\* The stored powers of the snapshots compute() was given.
PowersOf(snaps) == [i \in 1..Len(snaps) |-> snaps[i].power_kw]
RECURSIVE SumOf(_)
SumOf(powers) ==
    IF powers = <<>> THEN 0 ELSE Head(powers) + SumOf(Tail(powers))

\* C27: compute() returns total_generation_kw = the sum of the positive
\* stored powers, total_consumption_kw = the sum of the absolute values of
\* the negative ones, grid_balance_kw = total_generation_kw -
\* total_consumption_kw and asset_count = the number of snapshots (all 0 for
\* the empty registry).
C27_Totals ==
    Computed =>
        /\ computed.total_generation_kw =
             SumOf(SelectSeq(PowersOf(snapshots), LAMBDA x : x > 0))
        /\ computed.total_consumption_kw =
             0 - SumOf(SelectSeq(PowersOf(snapshots), LAMBDA x : x < 0))
        /\ computed.grid_balance_kw =
             computed.total_generation_kw - computed.total_consumption_kw
        /\ computed.asset_count = Len(snapshots)

\* The alerts of a code compute() returned.
AlertsOf(code) == SelectSeq(computed.alerts, LAMBDA a : a.code = code)

\* C28: compute() returns exactly one ASSET_FAULT alert, critical and with
\* the asset's asset_id, for each snapshot in FAULT, and none for an asset
\* whose snapshot is not in FAULT.
C28_OneFaultAlertPerFaultedAsset ==
    Computed =>
        /\ \A i \in 1..Len(snapshots) :
             Cardinality({k \in 1..Len(computed.alerts) :
                            /\ computed.alerts[k].code = "ASSET_FAULT"
                            /\ computed.alerts[k].asset_id =
                                 snapshots[i].asset_id})
               = IF snapshots[i].state = "FAULT" THEN 1 ELSE 0
        /\ \A k \in 1..Len(computed.alerts) :
             computed.alerts[k].code = "ASSET_FAULT" =>
                /\ computed.alerts[k].severity = "critical"
                /\ \E i \in 1..Len(snapshots) :
                      /\ snapshots[i].asset_id = computed.alerts[k].asset_id
                      /\ snapshots[i].state = "FAULT"

\* compute() has returned for three snapshots, two of them in FAULT, with a
\* surplus alert after the two fault alerts.
C28_Witness ==
    /\ Computed
    /\ Len(snapshots) = 3
    /\ snapshots[1].state = "FAULT"
    /\ snapshots[2].state = "RUNNING"
    /\ snapshots[3].state = "FAULT"
    /\ Len(AlertsOf("ASSET_FAULT")) = 2
    /\ Len(computed.alerts) = 3

\* C29: compute() returns a GRID_SURPLUS warning exactly when the
\* grid_balance_kw it reports is strictly greater than the threshold, and a
\* GRID_DEFICIT warning exactly when it is strictly less than the negated
\* threshold (at most one of each; none at the threshold itself).
C29_BalanceAlertsMatchReportedBalance ==
    Computed =>
        /\ Len(AlertsOf("GRID_SURPLUS")) =
             (IF computed.grid_balance_kw > agg_threshold THEN 1 ELSE 0)
        /\ Len(AlertsOf("GRID_DEFICIT")) =
             (IF computed.grid_balance_kw < 0 - agg_threshold THEN 1 ELSE 0)
        /\ \A k \in 1..Len(computed.alerts) :
             computed.alerts[k].code \in {"GRID_SURPLUS", "GRID_DEFICIT"}
                => computed.alerts[k].severity = "warning"
\* ---- Method handlers ----

\* The request's argument is missing where the method requires one, is not a
\* number, or is outside the range the method accepts.
InvalidArgument(req) ==
    LET key == ArgKey(req.name)
    IN \/ /\ req.name \in {"set_output", "set_temperature"}
          /\ key \notin DOMAIN req.payload
       \/ /\ req.name \in {"set_output", "set_temperature", "start_charging",
                          "start_discharging"}
          /\ key \in DOMAIN req.payload
          /\ \/ "num" \notin DOMAIN req.payload[key]
             \/ /\ req.name = "set_temperature"
                /\ ~(40 <= req.payload[key].num /\ req.payload[key].num <= 120)

\* C30: the handler answers every request with a response that carries the
\* request's correlation id: 404 for a method name the module does not know;
\* 409 for a known method whose argument is missing, not a number or out of
\* range; otherwise 200, or 409 when the driver rejects the command in its
\* current state and is left as it was; 500 for none of these requests.
C30_HandlerStatusCodes ==
    [][\A req \in HandlerRequests :
          HandlerCall(req) =>
              /\ h_response'.request_id = req.request_id
              /\ h_response'.status \in {200, 404, 409}
              /\ h_response'.status = 404
                    <=> req.name \notin KnownMethods(h_module)
              /\ (req.name \in KnownMethods(h_module) /\ InvalidArgument(req))
                    => h_response'.status = 409
              /\ h_response'.status = 409 => h_asset' = h_asset]_vars

\* C31: the handler of each driver module (solar, battery, boiler) answers
\* start, stop and reset with a status other than 404, and the driver is then
\* in the state the lifecycle operation leaves it in: running after a start
\* from IDLE, idle after a stop from RUNNING and after a reset from FAULT.
C31_LifecycleMethodsAccepted ==
    [][\A req \in HandlerRequests :
          (HandlerCall(req) /\ req.name \in {"start", "stop", "reset"}) =>
              /\ h_response'.status # 404
              /\ (req.name = "start" /\ h_asset.state = "IDLE")
                    => h_asset'.state = "RUNNING"
              /\ (req.name = "stop" /\ h_asset.state = "RUNNING")
                    => h_asset'.state = "IDLE"
              /\ (req.name = "reset" /\ h_asset.state = "FAULT")
                    => h_asset'.state = "IDLE"]_vars
\* ---- Inbound dispatch ----

\* The message has a payload that does not decode, or is of a class (method
\* invocation, data message) no handler is registered for.
Undeliverable(m) ==
    \/ m.body = "undecodable"
    \/ m.class \in {"method", "data"} /\ m.class \notin in_handlers

\* C32: a message whose payload does not decode, and a message of a class
\* without registered handler, is dropped: the pending map and the handlers
\* stay as they were and the listener keeps running, so that a well-formed
\* message delivered to a running listener with a handler for it is
\* dispatched.
C32_UndeliverableDropped ==
    [][\A m \in InboundMessages :
          InboundDeliver(m) =>
              /\ Undeliverable(m) =>
                    /\ in_pending' = in_pending
                    /\ in_handlers' = in_handlers
                    /\ in_listen' = "running"
                    /\ in_last' = "dropped"
              /\ (m.body = "object" /\ m.class \in in_handlers)
                    => in_last' = "dispatched"]_vars

\* Two messages were delivered and the last one was dropped (not decodable,
\* or an invocation without method handler) with a call pending and the
\* message handler registered, and the listener runs.
C32_Witness ==
    /\ in_count = 2
    /\ in_last = "dropped"
    /\ in_listen = "running"
    /\ in_handlers = {"data"}
    /\ DOMAIN in_pending = {"a"}

\* C34: a failure raised while a message is dispatched (a handler that
\* raises, a payload that is no JSON object) leaves the listener running:
\* the messages delivered afterwards are dispatched.
C34_DispatchSurvivesFailures ==
    [][\A m \in InboundMessages :
          (InboundDeliver(m) /\ in_last' = "raised")
              => in_listen' = "running"]_vars
\* ---- Dispatcher: retry delay ----

\* C33: send() waits the retry delay after each failed attempt that another
\* attempt follows, and at no other point: the waits completed are as many
\* as the attempts begun when the loop is about to begin one, and one less
\* during an attempt, during a wait and when send() has returned or raised
\* (k attempts, k-1 waits); a wait begins only where an attempt failed.
C33_DelayOnlyBetweenAttempts ==
    /\ [](/\ d_pc = "loop" => slept = Len(invoked)
          /\ d_pc \in {"invoking", "sleep"} => slept = Len(invoked) - 1
          /\ (d_pc = "done" /\ outcome.kind \in {"returned", "raised"})
                => slept = Len(invoked) - 1)
    /\ [][/\ (d_pc # "sleep" /\ d_pc' = "sleep")
               => (d_pc = "invoking" /\ transport[Len(invoked)] # "ok")
          /\ slept' # slept => (d_pc = "sleep" /\ d_pc' = "loop")]_vars

\* send() has raised after three failed attempts and two waits.
C33_Witness ==
    /\ d_pc = "done"
    /\ outcome.kind = "raised"
    /\ Len(invoked) = 3
    /\ slept = 2

\* C35: a response resolves its call as a success whatever status code it
\* carries: a call that was answered (with 200, 404, 409 or 500) has
\* returned the payload of the answer, and send(), resuming from an answered
\* call, returns that payload at the same attempt: it neither sleeps for a
\* retry nor raises, and makes no further call.
C35_AnyStatusResolves ==
    /\ [](\A i \in 1..Len(b_calls) :
             b_calls[i].by # 0 =>
                 /\ b_calls[i].status \in Statuses
                 /\ b_calls[i].st = "returned"
                 /\ b_calls[i].result
                      = HandlerPayload(b_calls[i].by, b_calls[i].status))
    /\ [](b_send.pc = "returned" =>
             /\ Cardinality(CallsOf(Controller)) = b_send.attempt
             /\ b_send.result = b_calls[CurrentCall].result)
    /\ [][(b_send.pc = "invoking" /\ b_calls[CurrentCall].by # 0
             /\ b_send' # b_send)
            => /\ b_send'.pc = "returned"
               /\ b_send'.attempt = b_send.attempt]_vars
    /\ [][b_send.pc = "returned"
            => b_send' = b_send /\ CallsOf(Controller)' = CallsOf(Controller)]_vars

\* send() has returned the answer of a target that rejected the command.
C35_Witness ==
    /\ b_send.pc = "returned"
    /\ b_calls[CurrentCall].status \in {404, 409, 500}
    /\ b_send.result.error

\* C36: a response completes only the call that caused the invocation it
\* answers: a call that a response completed was completed by the response
\* to its own invocation, so never by a response to the call of another
\* module, nor by the response of a target other than the one it addressed.
C36_ResponseCompletesOwnCall ==
    \A i \in 1..Len(b_calls) :
        b_calls[i].by # 0 =>
            /\ b_calls[i].by = i
            /\ b_calls[b_calls[i].by].caller = b_calls[i].caller
            /\ b_calls[b_calls[i].by].target = b_calls[i].target

\* C37: one send() makes one invoke_method call per attempt, and the call
\* publishes one invocation (none when the publish raises), which the
\* target's handler runs at most once: at most max_retries + 1 handler runs
\* for the send.  The attempts wait on different correlation ids, and an
\* attempt is completed only by the response to its own invocation, never
\* by the late response to an earlier attempt.
RECURSIVE SumRuns(_)
SumRuns(S) ==
    IF S = {} THEN 0
    ELSE LET i == CHOOSE x \in S : TRUE IN b_calls[i].runs + SumRuns(S \ {i})

C37_OneInvocationPerAttempt ==
    LET mine == CallsOf(Controller) IN
    /\ Cardinality(mine) \in {b_send.attempt - 1, b_send.attempt}
    /\ b_send.attempt <= b_send.max_retries + 1
    /\ \A i \in mine :
          /\ b_calls[i].runs <= 1
          /\ Cardinality({m \in b_net : m.cause = i}) <= 1
          /\ b_calls[i].st = "publish_failed" => b_calls[i].runs = 0
    /\ SumRuns(mine) <= b_send.max_retries + 1
    /\ \A i, j \in mine : i # j => b_calls[i].id # b_calls[j].id
    /\ \A i \in mine : b_calls[i].by \notin mine \ {i}

\* The response to an attempt that had timed out reached the controller
\* while the next attempt was waiting, and left that attempt waiting.
C37_Witness ==
    \E i, j \in CallsOf(Controller) :
        /\ i < j
        /\ b_calls[i].st = "timeout"
        /\ b_calls[i].runs = 1
        /\ b_calls[i].dropped >= j
        /\ b_calls[j].st = "waiting"

\* C38: for every registry content and every configured threshold, one
\* compute() returns at most one balance alert: never both GRID_SURPLUS and
\* GRID_DEFICIT, and never two alerts of the same balance code.
C38_AtMostOneBalanceAlert ==
    Computed =>
        Len(AlertsOf("GRID_SURPLUS")) + Len(AlertsOf("GRID_DEFICIT")) <= 1
\* ---- Asset drivers ----

\* The call of a type-specific command is one the driver must reject.
MustReject(d, op, arg) ==
    CASE op = "set_output" -> d.state # "RUNNING"
      [] op = "set_temperature" -> d.state # "RUNNING" \/ arg < 40 \/ arg > 120
      [] op = "start_charging" ->
           \/ d.battery_state \notin {"IDLE", "RUNNING", "DISCHARGING"}
           \/ d.soc = "max"
      [] op = "start_discharging" ->
           \/ d.battery_state \notin {"IDLE", "RUNNING", "CHARGING"}
           \/ d.soc = "min"
      [] OTHER -> FALSE

\* C39: a type-specific command the driver rejects raises an error and
\* leaves the driver's state, setpoint and power (every field of the driver)
\* unchanged; a command that raised changed nothing.
C39_RejectedCommandChangesNothing ==
    [][/\ MustReject(drv, drv_last'.op, drv_last'.arg)
          => drv_last'.raised /\ drv' = drv
       /\ drv_last'.raised => drv' = drv]_vars

\* A charging battery has rejected start_charging, its power standing.
C39_Witness ==
    /\ drv.kind = "BatteryStorage"
    /\ drv.battery_state = "CHARGING"
    /\ drv.power = 50
    /\ drv_last = Called("start_charging", 500, TRUE)

\* C40: in every reachable state of the battery, power_kw is positive and
\* at most max_power_kw while CHARGING, negative with magnitude at most
\* max_power_kw while DISCHARGING, and exactly 0 in every other state.
C40_BatteryPowerMatchesState ==
    drv.kind = "BatteryStorage" =>
        CASE drv.battery_state = "CHARGING" ->
               0 < drv.power /\ drv.power <= drv.max_power_kw
          [] drv.battery_state = "DISCHARGING" ->
               drv.power < 0 /\ 0 - drv.power <= drv.max_power_kw
          [] OTHER -> drv.power = 0
====
